---- MODULE Spec2Model ----
(***************************************************************************)
(* Fork choice of the beacon chain: the proto-array block DAG              *)
(* (eth2/proto_array_fork_choice/src/proto_array.rs), the ForkChoice       *)
(* orchestrator (consensus/fork_choice/src/fork_choice.rs) and the         *)
(* slashing-protection store exercised by                                  *)
(* validator_client/slashing_protection/src/parallel_tests.rs.             *)
(*                                                                         *)
(* Indices into `nodes` are the 0-based usize values of the source; the    *)
(* node at index i is nodes[i + 1].  Option::None is NONE.  Hash256 values *)
(* are the integers 0..MaxRoot, ordered as integers, 0 being               *)
(* Hash256::zero().                                                        *)
(***************************************************************************)
EXTENDS Integers, Sequences, FiniteSets, TLC

VARIABLES
    proto_array,          \* ProtoArray: prune_threshold, justified_epoch, finalized_epoch, nodes, indices
    fc_store,             \* ForkChoiceStore: current_slot and the three checkpoints
    votes,                \* ProtoArrayForkChoice.votes: one VoteTracker per validator
    target_roots,         \* ProtoBlock.target_root of every block given to process_block
    queued_attestations,  \* ForkChoice.queued_attestations
    slashing_db,          \* SlashingDatabase: the signed blocks and attestations of the validator
    db_lock,              \* the caller whose transaction holds the database, or NoCaller
    callers,              \* the threads calling the SlashingDatabase: position, request, result
    slots_per_epoch,      \* EthSpec::slots_per_epoch() of the ForkChoice
    pool,                 \* NaiveAggregationPool: lowest_permissible_slot and maps
    lifo,                 \* a LifoQueue: queue (front first) and max_length
    chain,                \* BeaconChain as the verification sees it: observed sets, caches, locks
    verifiers,            \* the threads running an attestation verification
    processor,            \* GossipProcessor: current_workers, max_workers and the two queues
    event_rx,             \* the events sent to the manager and not yet received
    workers,              \* the worker tasks that have been spawned and have not ended
    emitted,              \* per message id: its work and what its worker has done, in order
    last                  \* what the most recent call did and returned

vars ==
    <<proto_array, fc_store, votes, target_roots, queued_attestations,
      slashing_db, db_lock, callers, slots_per_epoch, pool,
      lifo, chain, verifiers, processor, event_rx, workers, emitted, last>>
fc_vars == <<fc_store, votes, target_roots, queued_attestations, slots_per_epoch>>
sp_vars == <<slashing_db, db_lock, callers>>
av_vars == <<chain, verifiers>>
gp_vars == <<processor, event_rx, workers, emitted>>

\* ------------------------------------------------------------------ bounds
MaxNodes == 3
MaxRoot == 2
MaxEpoch == 1
MaxWeight == 1
MaxDelta == 1
PruneThreshold == 1

NONE == 0 - 1
ZeroHash == 0
Roots == 0..MaxRoot
Epochs == 0..MaxEpoch
\* (justified epoch, finalized epoch) of a state: finalization never runs ahead of
\* justification
EpochPairs == {p \in Epochs \X Epochs : p[2] <= p[1]}

\* ------------------------------------------------------------- ProtoArray
Ok(pa) == [ok |-> TRUE, pa |-> pa]
Err(pa) == [ok |-> FALSE, pa |-> pa]

Len0(pa) == Len(pa.nodes)
HasNode(pa, i) == i >= 0 /\ i < Len(pa.nodes)
Node(pa, i) == pa.nodes[i + 1]
SetNode(pa, i, n) == [pa EXCEPT !.nodes[i + 1] = n]

NodeIsViableForHead(pa, node) ==
    /\ (node.justified_epoch = pa.justified_epoch \/ pa.justified_epoch = 0)
    /\ (node.finalized_epoch = pa.finalized_epoch \/ pa.finalized_epoch = 0)

\* [ok, val]: ok is FALSE for Err(InvalidBestDescendant)
NodeLeadsToViableHead(pa, node) ==
    IF node.best_descendant # NONE /\ ~HasNode(pa, node.best_descendant)
    THEN [ok |-> FALSE, val |-> FALSE]
    ELSE [ok |-> TRUE,
          val |-> \/ (node.best_descendant # NONE
                        /\ NodeIsViableForHead(pa, Node(pa, node.best_descendant)))
                  \/ NodeIsViableForHead(pa, node)]

\* a change_to_child that forgets the best descendant of the child
ChangeToChildOnly(child, child_index) == <<child_index, child_index>>

ChangeToChild(child, child_index) ==
    <<child_index,
      IF child.best_descendant # NONE THEN child.best_descendant ELSE child_index>>

\* the comparison of a child with another, existing best child (both exist)
ChooseAgainstBestChild(child, best_child, child_ok, best_child_ok, change_to_child, no_change) ==
    IF child_ok /\ ~best_child_ok THEN change_to_child
    ELSE IF ~child_ok /\ best_child_ok THEN no_change
    ELSE IF child.weight = best_child.weight
         THEN (IF child.root >= best_child.root THEN change_to_child ELSE no_change)
         ELSE (IF child.weight >= best_child.weight THEN change_to_child ELSE no_change)

MaybeUpdateBestChildAndDescendant(pa, parent_index, child_index) ==
    IF ~HasNode(pa, child_index) \/ ~HasNode(pa, parent_index) THEN Err(pa)
    ELSE
    LET child == Node(pa, child_index)
        parent == Node(pa, parent_index)
        child_leads == NodeLeadsToViableHead(pa, child)
        change_to_none == <<NONE, NONE>>
        change_to_child == ChangeToChild(child, child_index)
        no_change == <<parent.best_child, parent.best_descendant>>
        best_child_index == parent.best_child
        \* [ok, val] with val the pair (new_best_child, new_best_descendant)
        new ==
            IF best_child_index # NONE
            THEN IF best_child_index = child_index /\ ~child_leads.val
                 THEN [ok |-> TRUE, val |-> change_to_none]
                 ELSE IF best_child_index = child_index
                 THEN [ok |-> TRUE, val |-> change_to_child]
                 ELSE IF ~HasNode(pa, best_child_index)
                 THEN [ok |-> FALSE, val |-> no_change]
                 ELSE LET best_child == Node(pa, best_child_index)
                          best_leads == NodeLeadsToViableHead(pa, best_child)
                      IN IF ~best_leads.ok
                         THEN [ok |-> FALSE, val |-> no_change]
                         ELSE [ok |-> TRUE,
                               val |-> ChooseAgainstBestChild(child, best_child,
                                           child_leads.val, best_leads.val,
                                           change_to_child, no_change)]
            ELSE IF child_leads.val
                 THEN [ok |-> TRUE, val |-> change_to_child]
                 ELSE [ok |-> TRUE, val |-> no_change]
    IN IF ~child_leads.ok \/ ~new.ok THEN Err(pa)
       ELSE Ok(SetNode(pa, parent_index,
                [parent EXCEPT !.best_child = new.val[1],
                               !.best_descendant = new.val[2]]))

\* u64 checked_add / checked_sub of an i64 delta: [ok, val]
CheckedApplyDelta(weight, node_delta) ==
    IF node_delta < 0
    THEN (IF weight < 0 - node_delta
          THEN [ok |-> FALSE, val |-> weight]
          ELSE [ok |-> TRUE, val |-> weight + node_delta])
    ELSE [ok |-> TRUE, val |-> weight + node_delta]

\* One iteration of the loop of apply_score_changes, for node_index, and the ones
\* after it (node_index - 1 down to 0).  `deltas` is the Vec<i64> as a sequence.
RECURSIVE ApplyScoreLoop(_, _, _)
ApplyScoreLoop(pa, deltas, node_index) ==
    IF node_index < 0 THEN Ok(pa)
    ELSE
    LET node == Node(pa, node_index) IN
    IF node.root = ZeroHash THEN ApplyScoreLoop(pa, deltas, node_index - 1)
    ELSE IF node_index >= Len(deltas) THEN Err(pa)              \* InvalidNodeDelta
    ELSE
    LET node_delta == deltas[node_index + 1]
        w == CheckedApplyDelta(node.weight, node_delta)
    IN IF ~w.ok THEN Err(pa)                                     \* DeltaOverflow
       ELSE
       LET pa1 == SetNode(pa, node_index, [node EXCEPT !.weight = w.val]) IN
       IF node.parent = NONE THEN ApplyScoreLoop(pa1, deltas, node_index - 1)
       ELSE IF node.parent >= Len(deltas) THEN Err(pa1)          \* InvalidParentDelta
       ELSE
       LET deltas1 == [deltas EXCEPT ![node.parent + 1] = @ + node_delta]
           r == MaybeUpdateBestChildAndDescendant(pa1, node.parent, node_index)
       IN IF ~r.ok THEN r
          ELSE ApplyScoreLoop(r.pa, deltas1, node_index - 1)

ApplyScoreChanges(pa, deltas, justified_epoch, finalized_epoch) ==
    IF Len(deltas) # Cardinality(DOMAIN pa.indices) THEN Err(pa)  \* InvalidDeltaLen
    ELSE
    LET pa1 == [pa EXCEPT !.justified_epoch = justified_epoch,
                          !.finalized_epoch = finalized_epoch]
    IN ApplyScoreLoop(pa1, deltas, Len0(pa1) - 1)

OnNewBlock(pa, slot, root, parent_opt, justified_epoch, finalized_epoch) ==
    LET node_index == Len0(pa)
        node == [slot |-> slot,
                 root |-> root,
                 parent |-> IF parent_opt # NONE /\ parent_opt \in DOMAIN pa.indices
                            THEN pa.indices[parent_opt] ELSE NONE,
                 justified_epoch |-> justified_epoch,
                 finalized_epoch |-> finalized_epoch,
                 weight |-> 0,
                 best_child |-> NONE,
                 best_descendant |-> NONE]
        pa1 == [pa EXCEPT !.indices = (root :> node_index) @@ pa.indices,
                          !.nodes = Append(pa.nodes, node)]
    IN IF node.parent # NONE
       THEN MaybeUpdateBestChildAndDescendant(pa1, node.parent, node_index)
       ELSE Ok(pa1)

\* [ok, root, err]
FindHead(pa, justified_root) ==
    IF justified_root \notin DOMAIN pa.indices
    THEN [ok |-> FALSE, root |-> NONE, err |-> "JustifiedNodeUnknown"]
    ELSE
    LET justified_index == pa.indices[justified_root] IN
    IF ~HasNode(pa, justified_index)
    THEN [ok |-> FALSE, root |-> NONE, err |-> "InvalidJustifiedIndex"]
    ELSE
    LET justified_node == Node(pa, justified_index)
        best_descendant_index ==
            IF justified_node.best_descendant # NONE
            THEN justified_node.best_descendant ELSE justified_index
    IN IF ~HasNode(pa, best_descendant_index)
       THEN [ok |-> FALSE, root |-> NONE, err |-> "InvalidBestDescendant"]
       ELSE LET best_node == Node(pa, best_descendant_index) IN
            IF ~NodeIsViableForHead(pa, best_node)
            THEN [ok |-> FALSE, root |-> NONE, err |-> "InvalidBestNode"]
            ELSE [ok |-> TRUE, root |-> best_node.root, err |-> "none"]

\* usize::checked_sub as used on the links of the surviving nodes
ShiftIndex(index, finalized_index) == index - finalized_index

\* a prune that forgets to rewrite best_descendant
PruneNodeStaleDescendant(node, finalized_index) ==
    [node EXCEPT
        !.parent = IF @ # NONE /\ @ >= finalized_index
                   THEN ShiftIndex(@, finalized_index) ELSE NONE,
        !.best_child = IF @ # NONE THEN ShiftIndex(@, finalized_index) ELSE NONE]

PruneNode(node, finalized_index) ==
    [node EXCEPT
        !.parent = IF @ # NONE /\ @ >= finalized_index
                   THEN ShiftIndex(@, finalized_index) ELSE NONE,
        !.best_child = IF @ # NONE THEN ShiftIndex(@, finalized_index) ELSE NONE,
        !.best_descendant = IF @ # NONE THEN ShiftIndex(@, finalized_index) ELSE NONE]

\* Err(error) of maybe_prune, with the array as the call leaves it
PruneErr(pa, err) == [ok |-> FALSE, pa |-> pa, err |-> err]

RevertsToEqualEpoch(finalized_epoch, current_finalized_epoch) ==
    finalized_epoch = current_finalized_epoch

\* line 220 of maybe_prune: the finalized epoch given is behind the one of the array
RevertsFinalizedEpoch(finalized_epoch, current_finalized_epoch) ==
    finalized_epoch < current_finalized_epoch

MaybePrune(pa, finalized_epoch, finalized_root) ==
    IF RevertsFinalizedEpoch(finalized_epoch, pa.finalized_epoch)
    THEN PruneErr(pa, "RevertedFinalizedEpoch")
    ELSE
    LET pa1 == [pa EXCEPT !.finalized_epoch = finalized_epoch] IN
    IF finalized_root \notin DOMAIN pa1.indices THEN PruneErr(pa1, "FinalizedNodeUnknown")
    ELSE
    LET finalized_index == pa1.indices[finalized_root] IN
    IF finalized_index < pa1.prune_threshold THEN Ok(pa1)
    ELSE
    LET removed == {pa1.nodes[i].root : i \in 1..finalized_index}
        kept == DOMAIN pa1.indices \ removed
        nodes1 == SubSeq(pa1.nodes, finalized_index + 1, Len(pa1.nodes))
        pa2 == [pa1 EXCEPT
                  !.indices = [r \in kept |-> pa1.indices[r]],
                  !.nodes = nodes1]
    IN IF \E r \in kept : pa1.indices[r] < finalized_index
       THEN PruneErr(pa2, "IndexOverflow")
       ELSE
       LET pa3 == [pa2 EXCEPT
                     !.indices = [r \in kept |-> ShiftIndex(pa1.indices[r], finalized_index)]]
       IN IF \E i \in 1..Len(nodes1) :
               \/ (nodes1[i].best_child # NONE /\ nodes1[i].best_child < finalized_index)
               \/ (nodes1[i].best_descendant # NONE
                     /\ nodes1[i].best_descendant < finalized_index)
          THEN PruneErr(pa3, "IndexOverflow")
          ELSE Ok([pa3 EXCEPT
                     !.nodes = [i \in 1..Len(nodes1) |-> PruneNode(nodes1[i], finalized_index)]])

\* ------------------------------------------------- ProtoArray on its own
\* ------------------------------------------------ the SlashingDatabase, before any call
NumCallers == 3
MaxBlockSlot == 2
MaxSource == 2
MaxTarget == 5

Callers == 1..NumCallers
NoCaller == 0
NoRequest == [kind |-> "none"]

\* SlashingDatabase::create and register_validator: the row of the validator, empty
EmptySlashingDatabase == [blocks |-> {}, attestations |-> {}]

\* ------------------------------------------------ the other parts, before any call
SlotsPerEpoch == 2
LongSlotsPerEpoch == 10

SLOTS_RETAINED == 3
MAX_ATTESTATIONS_PER_SLOT == 16384

\* NaiveAggregationPool::default(); maps is a function from the slots that have an
\* AggregatedAttestationMap to that map
DefaultPool == [lowest_permissible_slot |-> 0, maps |-> <<>>]

\* gossip_processor.rs: the lengths of the event channel and of the two work queues
MAX_WORK_QUEUE_LEN == 65535
MAX_UNAGGREGATED_ATTESTATION_QUEUE_LEN == 16384
MAX_AGGREGATED_ATTESTATION_QUEUE_LEN == 1024

\* LifoQueue::new
LifoQueueNew(max_length) == [queue |-> <<>>, max_length |-> max_length]

NumVerifiers == 2
Verifiers == 1..NumVerifiers
NoVerifier == 0
NoWork == [kind |-> "none"]

\* a thread that has not been given an attestation to verify
IdleVerifier ==
    [pc |-> "idle", work |-> NoWork, result |-> "none", stages |-> <<>>, held |-> {},
     attesting_indices |-> {}]

\* the parts of the BeaconChain that the verification reads and writes: the two
\* readings of the slot clock, the three observed sets, the keys of the shuffling cache,
\* the writer of the shuffling cache and the readers of the pubkey cache and of the head
ChainAt(now_with_past_tolerance, now_with_future_tolerance) ==
    [now_with_past_tolerance |-> now_with_past_tolerance,
     now_with_future_tolerance |-> now_with_future_tolerance,
     observed_attesters |-> {},
     observed_attestations |-> {},
     observed_aggregators |-> {},
     shuffling_cache |-> {},
     shuffling_cache_writer |-> NoVerifier,
     validator_pubkey_cache_readers |-> {},
     canonical_head_readers |-> {}]

MaxWorkers == 2
MaxMessages == 3

\* GossipProcessor before spawn_manager, with the queues that spawn_manager creates
ProcessorNew(max_workers) ==
    [max_workers |-> max_workers,
     current_workers |-> 0,
     aggregate_queue |-> LifoQueueNew(MAX_AGGREGATED_ATTESTATION_QUEUE_LEN),
     attestation_queue |-> LifoQueueNew(MAX_UNAGGREGATED_ATTESTATION_QUEUE_LEN)]

\* no attestation is being verified and no message has been received from gossip
GossipInit ==
    /\ lifo = LifoQueueNew(MAX_AGGREGATED_ATTESTATION_QUEUE_LEN)
    /\ chain = ChainAt(0, 0)
    /\ verifiers = [v \in Verifiers |-> IdleVerifier]
    /\ processor = ProcessorNew(MaxWorkers)
    /\ event_rx = <<>>
    /\ workers = <<>>
    /\ emitted = <<>>

SlashingInit ==
    /\ slashing_db = EmptySlashingDatabase
    /\ db_lock = NoCaller
    /\ callers = [c \in Callers |-> [pc |-> "idle", request |-> NoRequest, result |-> "none"]]

EmptyProtoArray ==
    [prune_threshold |-> PruneThreshold,
     justified_epoch |-> 0,
     finalized_epoch |-> 0,
     nodes |-> <<>>,
     indices |-> <<>>]

PAInit ==
    /\ proto_array = EmptyProtoArray
    /\ fc_store = <<>>
    /\ votes = <<>>
    /\ target_roots = <<>>
    /\ queued_attestations = <<>>
    /\ slots_per_epoch = SlotsPerEpoch
    /\ SlashingInit
    /\ GossipInit
    /\ pool = DefaultPool
    /\ last = [op |-> "new", ok |-> TRUE]

\* It is only sane to supply a None parent for the genesis block (the first node), and
\* the zero hash is an alias of genesis that cannot have a parent.  The justified and
\* finalized epochs of a block's state are never behind those of its parent's state.
PA_on_new_block ==
    \E root \in Roots, parent_opt \in Roots \cup {NONE}, e \in EpochPairs :
        /\ Len0(proto_array) < MaxNodes
        /\ (root = ZeroHash => parent_opt = NONE)
        /\ IF Len0(proto_array) = 0
           THEN parent_opt = NONE
           ELSE /\ parent_opt \in DOMAIN proto_array.indices
                /\ LET parent == Node(proto_array, proto_array.indices[parent_opt])
                   IN e[1] >= parent.justified_epoch /\ e[2] >= parent.finalized_epoch
        /\ LET r == OnNewBlock(proto_array, 0, root, parent_opt, e[1], e[2])
           IN /\ proto_array' = r.pa
              /\ last' = [op |-> "on_new_block", ok |-> r.ok]
              /\ UNCHANGED <<fc_vars, sp_vars, pool, lifo, av_vars, gp_vars>>

DeltaVecs(n) == [1..n -> (0 - MaxDelta)..MaxDelta]

PA_apply_score_changes ==
    \E deltas \in DeltaVecs(Cardinality(DOMAIN proto_array.indices)), e \in EpochPairs :
        LET r == ApplyScoreChanges(proto_array, deltas, e[1], e[2])
        IN /\ \A i \in 1..Len(r.pa.nodes) : r.pa.nodes[i].weight <= MaxWeight
           /\ proto_array' = r.pa
           /\ last' = [op |-> "apply_score_changes", ok |-> r.ok]
           /\ UNCHANGED <<fc_vars, sp_vars, pool, lifo, av_vars, gp_vars>>

\* node i is node f or one of its descendants
RECURSIVE IsDescendantOrSelf(_, _, _)
IsDescendantOrSelf(pa, i, f) ==
    \/ i = f
    \/ /\ HasNode(pa, i)
       /\ Node(pa, i).parent # NONE
       /\ IsDescendantOrSelf(pa, Node(pa, i).parent, f)

\* the roots that name the finalized node or one of its descendants
RootsUnder(pa, finalized_root) ==
    IF finalized_root \notin DOMAIN pa.indices THEN {}
    ELSE {r \in DOMAIN pa.indices :
            IsDescendantOrSelf(pa, pa.indices[r], pa.indices[finalized_root])}

\* the roots of the nodes that a prune at finalized_root drops
RootsRemoved(pa, finalized_root) ==
    IF finalized_root \notin DOMAIN pa.indices THEN {}
    ELSE IF pa.indices[finalized_root] < pa.prune_threshold THEN {}
    ELSE {pa.nodes[i].root : i \in 1..pa.indices[finalized_root]}

\* the finalized epoch of the head that find_head(justified_root) names (NONE without one)
HeadFinalizedEpoch(pa, justified_root) ==
    IF ~FindHead(pa, justified_root).ok THEN NONE
    ELSE LET n == Node(pa, pa.indices[justified_root])
         IN IF n.best_descendant # NONE
            THEN Node(pa, n.best_descendant).finalized_epoch
            ELSE n.finalized_epoch

PA_maybe_prune ==
    \E finalized_epoch \in Epochs, finalized_root \in Roots :
        LET r == MaybePrune(proto_array, finalized_epoch, finalized_root)
        IN /\ proto_array' = r.pa
           /\ last' = [op |-> "maybe_prune", ok |-> r.ok,
                       under |-> RootsUnder(proto_array, finalized_root),
                       removed |-> RootsRemoved(proto_array, finalized_root),
                       before |-> [jr \in Roots |-> FindHead(proto_array, jr)],
                       head_fe |-> [jr \in Roots |-> HeadFinalizedEpoch(proto_array, jr)]]
           /\ UNCHANGED <<fc_vars, sp_vars, pool, lifo, av_vars, gp_vars>>

PANext ==
    \/ PA_on_new_block
    \/ PA_apply_score_changes
    \/ PA_maybe_prune

SpecPA == PAInit /\ [][PANext]_vars

\* ------------------------------------------------ claims on the ProtoArray
Children(pa, p) == {c \in 0..(Len0(pa) - 1) : Node(pa, c).parent = p}
LeadingChildren(pa, p) ==
    {c \in Children(pa, p) : NodeLeadsToViableHead(pa, Node(pa, c)).val}

\* the node that the best_child links lead to from node i (i itself without a best child)
RECURSIVE LeafByBestChild(_, _, _)
LeafByBestChild(pa, i, fuel) ==
    IF fuel = 0 \/ Node(pa, i).best_child = NONE \/ ~HasNode(pa, Node(pa, i).best_child)
    THEN i
    ELSE LeafByBestChild(pa, Node(pa, i).best_child, fuel - 1)

BestDescendantIsLeaf(pa) ==
    \A i \in 0..(Len0(pa) - 1) :
        LET n == Node(pa, i) IN
        IF n.best_child = NONE THEN n.best_descendant = NONE
        ELSE n.best_descendant = LeafByBestChild(pa, i, Len0(pa))

\* C2: after every successful apply_score_changes, the best_child of every node with a
\* child that leads to a viable head is such a child of the greatest weight and, among
\* those of the greatest weight, of the greatest root.
C2_BestChildIsHeaviestViable ==
    (last.op = "apply_score_changes" /\ last.ok) =>
        \A p \in 0..(Len0(proto_array) - 1) :
            LET cs == LeadingChildren(proto_array, p)
                b == Node(proto_array, p).best_child
            IN cs # {} =>
                /\ b \in cs
                /\ \A c \in cs :
                     LET bn == Node(proto_array, b)
                         cn == Node(proto_array, c)
                     IN \/ bn.weight > cn.weight
                        \/ (bn.weight = cn.weight /\ bn.root >= cn.root)

\* C9 as stated: after on_new_block as well as after apply_score_changes, the
\* best_descendant of every node is the leaf that its best_child links lead to.
C9_BestDescendantIsLeafAlways ==
    (last.op \in {"on_new_block", "apply_score_changes"} /\ last.ok) =>
        BestDescendantIsLeaf(proto_array)

\* C9 amended: right after a successful apply_score_changes the best_descendant of
\* every node is the leaf that its best_child links lead to (None exactly without a
\* best child).
C9_BestDescendantIsLeafAfterScores ==
    (last.op = "apply_score_changes" /\ last.ok) => BestDescendantIsLeaf(proto_array)

C9_Witness ==
    /\ last.op = "apply_score_changes" /\ last.ok
    /\ \E i \in 0..(Len0(proto_array) - 1) :
         LET n == Node(proto_array, i) IN
         n.best_child # NONE /\ n.best_descendant # n.best_child

MaxSlot == 8
NumValidators == 1
MaxQueue == 2
MaxAttestationSlot == 1
QueueMaxSlot == 3
QueueMaxNodes == 2
SAFE_SLOTS_TO_UPDATE_JUSTIFIED == 8
GenesisBlockRoot == 1

Validators == 0..(NumValidators - 1)
BlockRoots == 1..MaxNodes
EpochOf(slot) == slot \div slots_per_epoch
ComputeStartSlotAtEpoch(epoch) == epoch * slots_per_epoch
ComputeSlotsSinceEpochStart(slot) == slot - ComputeStartSlotAtEpoch(EpochOf(slot))
Checkpoint(epoch, root) == [epoch |-> epoch, root |-> root]

\* The ForkChoice as one value: fc_store, proto_array, votes, target_roots and
\* queued_attestations.
FcOk(fc) == [ok |-> TRUE, fc |-> fc, err |-> "none"]
FcErr(fc, err) == [ok |-> FALSE, fc |-> fc, err |-> err]

IsLaterSlot(previous_slot, current_slot) == current_slot > previous_slot

\* line 136 of on_tick: the tick has moved the store to the first slot of an epoch
IsFirstSlotOfNewEpoch(previous_slot, current_slot) ==
    current_slot > previous_slot /\ ComputeSlotsSinceEpochStart(current_slot) = 0

\* [ok, store]
OnTick(store, time) ==
    LET previous_slot == store.current_slot IN
    IF time > previous_slot + 1 THEN [ok |-> FALSE, store |-> store]  \* InconsistentOnTick
    ELSE
    LET s1 == [store EXCEPT !.current_slot = time]
        current_slot == s1.current_slot
    IN IF ~IsFirstSlotOfNewEpoch(previous_slot, current_slot)
       THEN [ok |-> TRUE, store |-> s1]
       ELSE IF s1.best_justified_checkpoint.epoch > s1.justified_checkpoint.epoch
       THEN [ok |-> TRUE,
             store |-> [s1 EXCEPT !.justified_checkpoint = s1.best_justified_checkpoint]]
       ELSE [ok |-> TRUE, store |-> s1]

\* the first index (0-based) of an attestation with slot >= current_slot, else the length
FirstNotEarlier(current_slot, queue) ==
    IF \E i \in 1..Len(queue) : queue[i].slot >= current_slot
    THEN (CHOOSE i \in 1..Len(queue) :
            /\ queue[i].slot >= current_slot
            /\ \A j \in 1..(i - 1) : queue[j].slot < current_slot) - 1
    ELSE Len(queue)

\* [dequeued, remaining]: the returned Vec, and what it leaves in queued_attestations
DequeueAttestations(current_slot, queue) ==
    LET at == FirstNotEarlier(current_slot, queue)
    IN [dequeued |-> SubSeq(queue, 1, at),
        remaining |-> SubSeq(queue, at + 1, Len(queue))]

DefaultVote == [current_root |-> ZeroHash, next_root |-> ZeroHash, next_epoch |-> 0]

ProcessAttestation(vs, validator_index, block_root, target_epoch) ==
    IF target_epoch > vs[validator_index].next_epoch \/ vs[validator_index] = DefaultVote
    THEN [vs EXCEPT ![validator_index].next_root = block_root,
                    ![validator_index].next_epoch = target_epoch]
    ELSE vs

\* the loop over attesting_indices (sorted and unique) of one attestation
ProcessAttestingIndices(vs, attesting_indices, block_root, target_epoch) ==
    [v \in DOMAIN vs |->
        IF v \in attesting_indices
        THEN ProcessAttestation(vs, v, block_root, target_epoch)[v]
        ELSE vs[v]]

RECURSIVE ProcessDequeued(_, _)
ProcessDequeued(vs, atts) ==
    IF atts = <<>> THEN vs
    ELSE ProcessDequeued(
            ProcessAttestingIndices(vs, Head(atts).attesting_indices,
                                    Head(atts).block_root, Head(atts).target_epoch),
            Tail(atts))

\* the loop of process_attestation_queue over the result `d` of dequeue_attestations
ApplyDequeued(fc, d) ==
    [fc EXCEPT !.queued_attestations = d.remaining,
               !.votes = ProcessDequeued(fc.votes, d.dequeued)]

ProcessAttestationQueue(fc) ==
    ApplyDequeued(fc, DequeueAttestations(fc.fc_store.current_slot, fc.queued_attestations))

RECURSIVE TickUntil(_, _)
TickUntil(store, current_slot) ==
    IF store.current_slot < current_slot
    THEN LET r == OnTick(store, store.current_slot + 1)
         IN IF ~r.ok THEN r ELSE TickUntil(r.store, current_slot)
    ELSE [ok |-> TRUE, store |-> store]

\* update_time after its loop of on_tick with the result t
UpdateTimeTicked(fc, t) ==
    IF ~t.ok THEN FcErr([fc EXCEPT !.fc_store = t.store], "InconsistentOnTick")
    ELSE FcOk(ProcessAttestationQueue([fc EXCEPT !.fc_store = t.store]))

UpdateTime(fc, current_slot) ==
    UpdateTimeTicked(fc, TickUntil(fc.fc_store, current_slot))

\* ForkChoiceStore::ancestor_at_slot: the root of the ancestor of the block at `slot`,
\* the most recent one before it when the slot is empty
RECURSIVE AncestorAtSlot(_, _, _)
AncestorAtSlot(pa, index, slot) ==
    LET n == Node(pa, index) IN
    IF n.slot <= slot \/ n.parent = NONE THEN n.root
    ELSE AncestorAtSlot(pa, n.parent, slot)

\* [ok, root]
GetAncestor(fc, block_root, ancestor_slot) ==
    IF block_root \notin DOMAIN fc.proto_array.indices
    THEN [ok |-> FALSE, root |-> NONE]                        \* MissingProtoArrayBlock
    ELSE LET index == fc.proto_array.indices[block_root]
             block == Node(fc.proto_array, index)
         IN IF block.slot > ancestor_slot
            THEN [ok |-> TRUE, root |-> AncestorAtSlot(fc.proto_array, index, ancestor_slot)]
            ELSE [ok |-> TRUE, root |-> block_root]

ShouldUpdateWhateverAncestor(fc, a) ==
    IF ~a.ok THEN [ok |-> FALSE, val |-> FALSE, fc |-> fc]
    ELSE [ok |-> TRUE, val |-> TRUE, fc |-> fc]

\* should_update_justified_checkpoint, lines 378-381: with the ancestor `a` of the new
\* justified root at the slot of the justified checkpoint
ShouldUpdateByAncestor(fc, a) ==
    IF ~a.ok THEN [ok |-> FALSE, val |-> FALSE, fc |-> fc]
    ELSE [ok |-> TRUE, val |-> (a.root = fc.fc_store.justified_checkpoint.root), fc |-> fc]

\* should_update_justified_checkpoint after its update_time
ShouldUpdateAtTime(fc, state) ==
    IF ComputeSlotsSinceEpochStart(fc.fc_store.current_slot) < SAFE_SLOTS_TO_UPDATE_JUSTIFIED
    THEN [ok |-> TRUE, val |-> TRUE, fc |-> fc]
    ELSE ShouldUpdateByAncestor(fc,
            GetAncestor(fc, state.current_justified_checkpoint.root,
                        ComputeStartSlotAtEpoch(fc.fc_store.justified_checkpoint.epoch)))

ShouldUpdateTimed(u, state) ==
    IF ~u.ok THEN [ok |-> FALSE, val |-> FALSE, fc |-> u.fc]
    ELSE ShouldUpdateAtTime(u.fc, state)

\* [ok, val, fc]
ShouldUpdateJustifiedCheckpoint(fc, current_slot, state) ==
    ShouldUpdateTimed(UpdateTime(fc, current_slot), state)

\* an on_block that leaves best_justified_checkpoint as it is
BestJustifiedKept(fc, state) == fc

\* lines 420-424 of on_block
WithBestJustified(fc, state) ==
    IF state.current_justified_checkpoint.epoch > fc.fc_store.best_justified_checkpoint.epoch
    THEN [fc EXCEPT !.fc_store.best_justified_checkpoint = state.current_justified_checkpoint]
    ELSE fc

\* lines 425-429 of on_block, su being the result of should_update_justified_checkpoint
OnBlockJustifiedDecided(su, state) ==
    IF ~su.ok THEN FcErr(su.fc, "MissingProtoArrayBlock")
    ELSE IF su.val
    THEN FcOk([su.fc EXCEPT !.fc_store.justified_checkpoint =
                                state.current_justified_checkpoint])
    ELSE FcOk(su.fc)

\* lines 419-430 of on_block: [ok, fc]
OnBlockJustified(fc, current_slot, state) ==
    IF state.current_justified_checkpoint.epoch > fc.fc_store.justified_checkpoint.epoch
    THEN OnBlockJustifiedDecided(
            ShouldUpdateJustifiedCheckpoint(WithBestJustified(fc, state), current_slot, state),
            state)
    ELSE FcOk(fc)

AdvancesFinalizedOnChange(state_epoch, stored_epoch) == state_epoch # stored_epoch

\* whether a finalized checkpoint of the state replaces the stored one
AdvancesFinalized(state_epoch, stored_epoch) == state_epoch > stored_epoch

SetJustified(fc, state) ==
    [fc EXCEPT !.fc_store.justified_checkpoint = state.current_justified_checkpoint]

OnBlockFinalizedWhateverAncestor(fc, state, a) ==
    IF ~a.ok THEN FcErr(fc, "MissingProtoArrayBlock")
    ELSE FcOk(SetJustified(fc, state))

\* lines 441-447 of on_block, with the ancestor `a` of the justified root at the
\* finalized slot
OnBlockFinalizedByAncestor(fc, state, a) ==
    IF ~a.ok THEN FcErr(fc, "MissingProtoArrayBlock")
    ELSE IF a.root # fc.fc_store.finalized_checkpoint.root
    THEN FcOk(SetJustified(fc, state))
    ELSE FcOk(fc)

\* lines 434-448 of on_block, after the finalized checkpoint has been set
OnBlockFinalizedSet(fc, state) ==
    IF state.current_justified_checkpoint.epoch > fc.fc_store.justified_checkpoint.epoch
    THEN FcOk(SetJustified(fc, state))
    ELSE OnBlockFinalizedByAncestor(fc, state,
            GetAncestor(fc, fc.fc_store.justified_checkpoint.root,
                        ComputeStartSlotAtEpoch(fc.fc_store.finalized_checkpoint.epoch)))

\* lines 432-449 of on_block: [ok, fc]
OnBlockFinalized(fc, state) ==
    IF AdvancesFinalized(state.finalized_checkpoint.epoch, fc.fc_store.finalized_checkpoint.epoch)
    THEN OnBlockFinalizedSet(
            [fc EXCEPT !.fc_store.finalized_checkpoint = state.finalized_checkpoint], state)
    ELSE FcOk(fc)

\* lines 465-477 of on_block: r is the result of process_block
OnBlockInserted(fc, r, block_root, target_root) ==
    IF ~r.ok THEN FcErr(fc, "ProtoArrayError")
    ELSE FcOk([fc EXCEPT !.proto_array = r.pa,
                         !.target_roots = (block_root :> target_root) @@ @])

\* lines 451-477 of on_block: f is the result of the part on the finalized checkpoint
OnBlockProcess(f, block, block_root, state) ==
    IF ~f.ok THEN f
    ELSE OnBlockInserted(f.fc,
            OnNewBlock(f.fc.proto_array, block.slot, block_root, block.parent_root,
                       state.current_justified_checkpoint.epoch,
                       state.finalized_checkpoint.epoch),
            block_root,
            IF block.slot = ComputeStartSlotAtEpoch(EpochOf(block.slot))
            THEN block_root ELSE state.target_root)

\* lines 432-477 of on_block: j is the result of the part on the justified checkpoint
OnBlockCheckpoints(j, block, block_root, state) ==
    IF ~j.ok THEN j
    ELSE OnBlockProcess(OnBlockFinalized(j.fc, state), block, block_root, state)

\* on_block after its update_time with the result u
OnBlockTimed(u, block, block_root, state) ==
    IF ~u.ok THEN u
    ELSE IF block.slot > u.fc.fc_store.current_slot THEN FcErr(u.fc, "FutureSlot")
    ELSE OnBlockCheckpoints(OnBlockJustified(u.fc, u.fc.fc_store.current_slot, state),
                            block, block_root, state)

\* block: [slot, parent_root]; state: [current_justified_checkpoint, finalized_checkpoint,
\* target_root], target_root being state.get_block_root(target_slot)
OnBlock(fc, current_slot_arg, block, block_root, state) ==
    OnBlockTimed(UpdateTime(fc, current_slot_arg), block, block_root, state)

ValidateOnAttestationAnyBlockSlot(fc, a) ==
    LET epoch_now == EpochOf(fc.fc_store.current_slot)
    IN IF a.attesting_indices = {} THEN "EmptyAggregationBitfield"
       ELSE IF a.target.epoch > epoch_now THEN "FutureEpoch"
       ELSE IF a.target.epoch + 1 < epoch_now THEN "PastEpoch"
       ELSE IF a.target.epoch # EpochOf(a.slot) THEN "BadTargetEpoch"
       ELSE IF a.target.root \notin DOMAIN fc.proto_array.indices THEN "UnknownTargetRoot"
       ELSE IF a.beacon_block_root \notin DOMAIN fc.proto_array.indices THEN "UnknownHeadBlock"
       ELSE IF fc.target_roots[a.beacon_block_root] # a.target.root THEN "InvalidTarget"
       ELSE "none"

\* attestation: [slot, attesting_indices, beacon_block_root, target]; the error, or "none"
ValidateOnAttestation(fc, a) ==
    LET slot_now == fc.fc_store.current_slot
        epoch_now == EpochOf(slot_now)
    IN IF a.attesting_indices = {} THEN "EmptyAggregationBitfield"
       ELSE IF a.target.epoch > epoch_now THEN "FutureEpoch"
       ELSE IF a.target.epoch + 1 < epoch_now THEN "PastEpoch"
       ELSE IF a.target.epoch # EpochOf(a.slot) THEN "BadTargetEpoch"
       ELSE IF a.target.root \notin DOMAIN fc.proto_array.indices THEN "UnknownTargetRoot"
       ELSE IF a.beacon_block_root \notin DOMAIN fc.proto_array.indices THEN "UnknownHeadBlock"
       ELSE IF fc.target_roots[a.beacon_block_root] # a.target.root THEN "InvalidTarget"
       ELSE IF Node(fc.proto_array, fc.proto_array.indices[a.beacon_block_root]).slot > a.slot
       THEN "AttestsToFutureBlock"
       ELSE "none"

QueuedAttestation(a) ==
    [slot |-> a.slot,
     attesting_indices |-> a.attesting_indices,
     block_root |-> a.beacon_block_root,
     target_epoch |-> a.target.epoch]

IsFromSlotSoFar(attestation_slot, current_slot) == attestation_slot <= current_slot

\* whether on_attestation applies the attestation at once (and does not queue it)
IsFromEarlierSlot(attestation_slot, current_slot) == attestation_slot < current_slot

\* lines 594-613 of on_attestation: e is the verdict of validate_on_attestation
OnAttestationValidated(fc, a, e) ==
    IF e # "none" THEN FcErr(fc, e)
    ELSE IF IsFromEarlierSlot(a.slot, fc.fc_store.current_slot)
    THEN FcOk([fc EXCEPT !.votes = ProcessAttestingIndices(@, a.attesting_indices,
                                        a.beacon_block_root, a.target.epoch)])
    ELSE FcOk([fc EXCEPT !.queued_attestations = Append(@, QueuedAttestation(a))])

\* on_attestation after its update_time with the result u
OnAttestationTimed(u, a) ==
    IF ~u.ok THEN u
    ELSE IF a.beacon_block_root = ZeroHash THEN FcOk(u.fc)
    ELSE OnAttestationValidated(u.fc, a, ValidateOnAttestation(u.fc, a))

OnAttestation(fc, current_slot_arg, a) ==
    OnAttestationTimed(UpdateTime(fc, current_slot_arg), a)

\* compute_deltas: the change of weight of every node from the votes that moved, each
\* validator having the balance 1; [deltas, votes]
VoteDelta(vs, root) ==
    Cardinality({v \in DOMAIN vs : vs[v].next_root = root /\ vs[v].current_root # root})
    - Cardinality({v \in DOMAIN vs : vs[v].current_root = root /\ vs[v].next_root # root})

ComputeDeltas(pa, vs) ==
    [deltas |-> [i \in 1..Cardinality(DOMAIN pa.indices) |->
                    IF \E r \in DOMAIN pa.indices : pa.indices[r] = i - 1
                    THEN VoteDelta(vs, CHOOSE r \in DOMAIN pa.indices : pa.indices[r] = i - 1)
                    ELSE 0],
     votes |-> [v \in DOMAIN vs |-> [vs[v] EXCEPT !.current_root = vs[v].next_root]]]

\* the result h of ProtoArray::find_head, with the ForkChoice it leaves
WithFc(h, fc) == [ok |-> h.ok, root |-> h.root, err |-> h.err, fc |-> fc]

\* ProtoArrayForkChoice::find_head after apply_score_changes with the result r
FindHeadScored(fc, r, justified_root) ==
    IF ~r.ok THEN [ok |-> FALSE, root |-> NONE, err |-> "apply_score_changes", fc |-> fc]
    ELSE WithFc(FindHead(r.pa, justified_root), fc)

\* ProtoArrayForkChoice::find_head with the result d of compute_deltas
FindHeadWithDeltas(fc, d, r, justified_root) ==
    FindHeadScored([fc EXCEPT !.proto_array = r.pa, !.votes = d.votes], r, justified_root)

FindHeadApplied(fc, d, justified_epoch, justified_root, finalized_epoch) ==
    FindHeadWithDeltas(fc, d,
        ApplyScoreChanges(fc.proto_array, d.deltas, justified_epoch, finalized_epoch),
        justified_root)

\* ProtoArrayForkChoice::find_head: [ok, root, err, fc]
FindHeadWithVotes(fc, justified_epoch, justified_root, finalized_epoch) ==
    FindHeadApplied(fc, ComputeDeltas(fc.proto_array, fc.votes),
                    justified_epoch, justified_root, finalized_epoch)

RemoveAlias(root) == IF root = ZeroHash THEN GenesisBlockRoot ELSE root

\* get_head after its update_time with the result u
GetHeadTimed(u) ==
    IF ~u.ok THEN [ok |-> FALSE, root |-> NONE, err |-> u.err, fc |-> u.fc]
    ELSE FindHeadWithVotes(u.fc,
            u.fc.fc_store.justified_checkpoint.epoch,
            RemoveAlias(u.fc.fc_store.justified_checkpoint.root),
            u.fc.fc_store.finalized_checkpoint.epoch)

GetHead(fc, current_slot_arg) == GetHeadTimed(UpdateTime(fc, current_slot_arg))

\* ------------------------------------------------ the ForkChoice at work
Fc ==
    [fc_store |-> fc_store, proto_array |-> proto_array, votes |-> votes,
     target_roots |-> target_roots, queued_attestations |-> queued_attestations]

SetFc(fc) ==
    /\ fc_store' = fc.fc_store
    /\ proto_array' = fc.proto_array
    /\ votes' = fc.votes
    /\ target_roots' = fc.target_roots
    /\ queued_attestations' = fc.queued_attestations
    /\ UNCHANGED <<sp_vars, slots_per_epoch, pool, lifo, av_vars, gp_vars>>

\* from_genesis, at the genesis slot, for an EthSpec of `spe` slots per epoch
FromGenesis(spe) ==
    /\ proto_array = OnNewBlock([EmptyProtoArray EXCEPT !.prune_threshold = 256],
                                0, GenesisBlockRoot, NONE, 0, 0).pa
    /\ fc_store = [current_slot |-> 0,
                   justified_checkpoint |-> Checkpoint(0, GenesisBlockRoot),
                   best_justified_checkpoint |-> Checkpoint(0, GenesisBlockRoot),
                   finalized_checkpoint |-> Checkpoint(0, GenesisBlockRoot)]
    /\ votes = [v \in Validators |-> DefaultVote]
    /\ target_roots = (GenesisBlockRoot :> GenesisBlockRoot)
    /\ queued_attestations = <<>>
    /\ slots_per_epoch = spe
    /\ SlashingInit
    /\ GossipInit
    /\ pool = DefaultPool
    /\ last = [op |-> "from_genesis", ok |-> TRUE, err |-> "none", drained |-> {}]

FCInit == FromGenesis(SlotsPerEpoch)

\* the slots a caller passes: the slot of the store, or the next one
SlotArgs(max_slot) ==
    {s \in {fc_store.current_slot, fc_store.current_slot + 1} : s <= max_slot}

SlotsOf(dequeued) == {dequeued[i].slot : i \in 1..Len(dequeued)}

\* the slots of the attestations that the update_time of a call dequeues
DrainedSlots(current_slot_arg) ==
    SlotsOf(DequeueAttestations(TickUntil(fc_store, current_slot_arg).store.current_slot,
                                queued_attestations).dequeued)

UpdateTimeReturns(u, drained) ==
    /\ SetFc(u.fc)
    /\ last' = [op |-> "update_time", ok |-> u.ok, err |-> u.err, drained |-> drained,
                justified_before |-> fc_store.justified_checkpoint]

UpdateTimeStep(max_slot) ==
    \E current_slot \in SlotArgs(max_slot) :
        UpdateTimeReturns(UpdateTime(Fc, current_slot), DrainedSlots(current_slot))

\* the checkpoint of `epoch` on the chain that ends with the parent: the zero hash at
\* epoch 0, as in the genesis state
CheckpointOnChain(pa, parent_index, epoch) ==
    IF epoch = 0 THEN Checkpoint(0, ZeroHash)
    ELSE Checkpoint(epoch, AncestorAtSlot(pa, parent_index, ComputeStartSlotAtEpoch(epoch)))

\* The states of a block in `slot` on the parent: the justified epoch is before the epoch
\* of the block, the finalized epoch before the justified one (both 0 at first), neither
\* is behind the parent's, and the checkpoint roots are the chain's blocks at these epochs.
BlockStates(pa, parent_index, slot) ==
    LET parent == Node(pa, parent_index)
    IN {[current_justified_checkpoint |-> CheckpointOnChain(pa, parent_index, p[1]),
         finalized_checkpoint |-> CheckpointOnChain(pa, parent_index, p[2]),
         target_root |-> AncestorAtSlot(pa, parent_index,
                                        ComputeStartSlotAtEpoch(EpochOf(slot)))] :
         p \in {q \in (0..EpochOf(slot)) \X (0..EpochOf(slot)) :
                            /\ (q[1] = 0 \/ q[1] < EpochOf(slot))
                            /\ (q[2] = 0 \/ q[2] < q[1])
                            /\ q[1] >= parent.justified_epoch
                            /\ q[2] >= parent.finalized_epoch}}

\* A block is given once, after its parent, in its own slot or later (or one slot early,
\* which on_block refuses).
\* r is the result of the call, mid the store after the update_time of the call
OnBlockReturns(r, mid, drained, state) ==
    /\ SetFc(r.fc)
    /\ last' = [op |-> "on_block", ok |-> r.ok, err |-> r.err, drained |-> drained,
                finalized |-> state.finalized_checkpoint,
                justified |-> state.current_justified_checkpoint,
                mid |-> mid]

OnBlockStep(max_slot, max_nodes) ==
    \E current_slot \in SlotArgs(max_slot), block_root \in BlockRoots,
       parent_root \in DOMAIN proto_array.indices, slot \in 1..(max_slot + 1) :
        /\ block_root \notin DOMAIN proto_array.indices
        /\ Len0(proto_array) < max_nodes
        /\ slot > Node(proto_array, proto_array.indices[parent_root]).slot
        /\ slot <= current_slot + 1
        /\ \E state \in BlockStates(proto_array, proto_array.indices[parent_root], slot) :
            OnBlockReturns(
                OnBlock(Fc, current_slot, [slot |-> slot, parent_root |-> parent_root],
                        block_root, state),
                UpdateTime(Fc, current_slot).fc.fc_store,
                DrainedSlots(current_slot), state)

\* The attestations given to on_attestation: of a slot up to two epochs before and one
\* epoch after the slot of the store, with the target epoch of that slot or the one
\* after it.
Attestations ==
    {[slot |-> s, attesting_indices |-> ix, beacon_block_root |-> b,
      target |-> Checkpoint(e, t)] :
        s \in {x \in 0..MaxSlot : /\ x + 2 * slots_per_epoch >= fc_store.current_slot
                                  /\ x <= fc_store.current_slot + slots_per_epoch},
        ix \in SUBSET Validators,
        b \in {ZeroHash} \cup BlockRoots,
        e \in 0..(EpochOf(MaxSlot) + 1),
        t \in BlockRoots}

NoAttestation ==
    [slot |-> 0, attesting_indices |-> {}, beacon_block_root |-> ZeroHash,
     target |-> Checkpoint(0, ZeroHash)]

\* r is the result of the call, mid the ForkChoice after the update_time of the call
OnAttestationReturns(r, mid, a, drained) ==
    /\ SetFc(r.fc)
    /\ last' = [op |-> "on_attestation", ok |-> r.ok, err |-> r.err, drained |-> drained,
                attestation |-> IF r.ok /\ a.beacon_block_root # ZeroHash
                                THEN a ELSE NoAttestation,
                votes_before |-> mid.votes,
                queue_before |-> mid.queued_attestations]

OnAttestationStep(max_slot) ==
    \E current_slot \in SlotArgs(max_slot), a \in Attestations :
        /\ Len(queued_attestations) < MaxQueue
        /\ a.target.epoch \in {EpochOf(a.slot), EpochOf(a.slot) + 1}
        /\ OnAttestationReturns(OnAttestation(Fc, current_slot, a),
                                UpdateTime(Fc, current_slot).fc, a,
                                DrainedSlots(current_slot))

GetHeadReturns(h, drained) ==
    /\ SetFc(h.fc)
    /\ last' = [op |-> "get_head", ok |-> h.ok, err |-> h.err, drained |-> drained,
                root |-> h.root]

GetHeadStep(max_slot) ==
    \E current_slot \in SlotArgs(max_slot) :
        GetHeadReturns(GetHead(Fc, current_slot), DrainedSlots(current_slot))

\* Blocks, justification and finalization over MaxSlot slots; attestations arrive up to
\* MaxAttestationSlot.
FC_update_time == UpdateTimeStep(MaxSlot)
FC_on_block == OnBlockStep(MaxSlot, MaxNodes)
FC_on_attestation == OnAttestationStep(MaxAttestationSlot)
FC_get_head == GetHeadStep(MaxSlot)

FCNext ==
    \/ FC_update_time
    \/ FC_on_block
    \/ FC_on_attestation
    \/ FC_get_head

SpecFC == FCInit /\ [][FCNext]_vars

\* Attestations and their queue over QueueMaxSlot slots, with at most QueueMaxNodes blocks.
Q_update_time == UpdateTimeStep(QueueMaxSlot)
Q_on_block == OnBlockStep(QueueMaxSlot, QueueMaxNodes)
Q_on_attestation == OnAttestationStep(QueueMaxSlot)
Q_get_head == GetHeadStep(QueueMaxSlot)

QNext ==
    \/ Q_update_time
    \/ Q_on_block
    \/ Q_on_attestation
    \/ Q_get_head

SpecQueue == FCInit /\ [][QNext]_vars

\* The justified checkpoints over JMaxSlot slots of an EthSpec whose epochs are longer than
\* SAFE_SLOTS_TO_UPDATE_JUSTIFIED.  The callers pass the slot of the store or a later
\* slot up to the first one of the next epoch, among the slots that are the first of an
\* epoch or past the safe ones; a block is of the first slot of an epoch and is given in
\* its slot or later, the k-th block having the root k.
JMaxSlot == 40
JMaxNodes == 4

JInit == FromGenesis(LongSlotsPerEpoch)

EpochStartSlots == {s \in 0..JMaxSlot : ComputeSlotsSinceEpochStart(s) = 0}

EpochEdgeSlots ==
    {s \in 0..JMaxSlot : \/ ComputeSlotsSinceEpochStart(s) = 0
                         \/ ComputeSlotsSinceEpochStart(s) >= SAFE_SLOTS_TO_UPDATE_JUSTIFIED}

JSlotArgs ==
    {s \in EpochEdgeSlots :
        /\ s >= fc_store.current_slot
        /\ s <= ComputeStartSlotAtEpoch(EpochOf(fc_store.current_slot) + 1)}

J_update_time ==
    \E current_slot \in JSlotArgs :
        UpdateTimeReturns(UpdateTime(Fc, current_slot), DrainedSlots(current_slot))

J_on_block ==
    \E current_slot \in JSlotArgs, parent_root \in DOMAIN proto_array.indices,
       slot \in EpochStartSlots :
        /\ Len0(proto_array) < JMaxNodes
        /\ slot > Node(proto_array, proto_array.indices[parent_root]).slot
        /\ slot <= current_slot
        /\ \E state \in BlockStates(proto_array, proto_array.indices[parent_root], slot) :
            OnBlockReturns(
                OnBlock(Fc, current_slot, [slot |-> slot, parent_root |-> parent_root],
                        Len0(proto_array) + 1, state),
                UpdateTime(Fc, current_slot).fc.fc_store,
                DrainedSlots(current_slot), state)

J_get_head ==
    \E current_slot \in JSlotArgs :
        GetHeadReturns(GetHead(Fc, current_slot), DrainedSlots(current_slot))

JNext ==
    \/ J_update_time
    \/ J_on_block
    \/ J_get_head

SpecJustified == JInit /\ [][JNext]_vars

\* ------------------------------------------------ claims about the ForkChoice

StoreViable(node) ==
    /\ (node.justified_epoch = fc_store.justified_checkpoint.epoch
        \/ fc_store.justified_checkpoint.epoch = 0)
    /\ (node.finalized_epoch = fc_store.finalized_checkpoint.epoch
        \/ fc_store.finalized_checkpoint.epoch = 0)

\* C1: get_head returns a block root, and the node of that root is viable for head under
\* the justified and finalized epochs of the store; it never fails.
C1_GetHeadReturnsViableRoot ==
    last.op = "get_head" =>
        /\ last.ok
        /\ last.root \in DOMAIN proto_array.indices
        /\ StoreViable(Node(proto_array, proto_array.indices[last.root]))

\* C3: the epoch of the finalized checkpoint of the store never decreases; the checkpoint
\* changes only in on_block, to the finalized checkpoint of the state, and exactly when
\* the epoch of that checkpoint is strictly greater than the stored one.
C3_FinalizedEpochMonotone ==
    [][/\ fc_store'.finalized_checkpoint.epoch >= fc_store.finalized_checkpoint.epoch
       /\ fc_store'.finalized_checkpoint # fc_store.finalized_checkpoint =>
            /\ last'.op = "on_block"
            /\ fc_store'.finalized_checkpoint = last'.finalized
            /\ last'.finalized.epoch > fc_store.finalized_checkpoint.epoch
       /\ (/\ last'.op = "on_block"
           /\ last'.err \notin {"FutureSlot", "InconsistentOnTick"}
           /\ last'.finalized.epoch > fc_store.finalized_checkpoint.epoch) =>
            fc_store'.finalized_checkpoint = last'.finalized]_vars

\* an on_block whose state has a finalized epoch below the stored one has left the
\* stored checkpoint in place
C3_Witness ==
    /\ last.op = "on_block"
    /\ last.ok
    /\ last.finalized.epoch < fc_store.finalized_checkpoint.epoch

\* C11 as stated: the epoch of the justified checkpoint of the store decreases only in a
\* tick that sets the checkpoint to the best justified one; no on_block lowers it.
C11_JustifiedLoweredOnlyByPromotion ==
    [][fc_store'.justified_checkpoint.epoch < fc_store.justified_checkpoint.epoch =>
        /\ last'.op # "on_block"
        /\ fc_store'.justified_checkpoint = fc_store.best_justified_checkpoint]_vars

\* C11: the epoch of the justified checkpoint of the store decreases only in an on_block
\* that advances the finalized checkpoint while the stored justified root has another
\* ancestor at the slot of the new finalized checkpoint than its root: the justified
\* checkpoint is then the one of the state.  No tick, get_head or on_block that keeps the
\* finalized checkpoint lowers it.
C11_JustifiedLoweredOnlyOffFinalizedChain ==
    [][fc_store'.justified_checkpoint.epoch < fc_store.justified_checkpoint.epoch =>
        /\ last'.op = "on_block"
        /\ last'.finalized.epoch > fc_store.finalized_checkpoint.epoch
        /\ fc_store'.finalized_checkpoint = last'.finalized
        /\ fc_store'.justified_checkpoint = last'.justified
        /\ GetAncestor(Fc, last'.mid.justified_checkpoint.root,
                       ComputeStartSlotAtEpoch(last'.finalized.epoch)).root
             # last'.finalized.root]_vars

\* an on_block has advanced the finalized checkpoint and left a justified checkpoint of
\* a lower epoch than the one the store had after the update_time of the call
C11_Witness ==
    /\ last.op = "on_block"
    /\ last.ok
    /\ fc_store.finalized_checkpoint = last.finalized
    /\ last.finalized.epoch > last.mid.finalized_checkpoint.epoch
    /\ fc_store.justified_checkpoint = last.justified
    /\ fc_store.justified_checkpoint.epoch < last.mid.justified_checkpoint.epoch

\* C12: a tick that moves the store forward to the first slot of an epoch, the best
\* justified checkpoint having a greater epoch than the justified one, leaves the
\* justified checkpoint equal to the best justified one; a tick that does not advance the
\* slot, or advances it to another slot of the epoch, leaves the justified checkpoint as
\* it was, and so does a tick to a first slot when the best justified epoch is not greater.
C12_PromotionAtEpochBoundaryOnly ==
    [][last'.op = "update_time" =>
        /\ fc_store'.best_justified_checkpoint = fc_store.best_justified_checkpoint
        /\ fc_store'.justified_checkpoint =
             IF /\ fc_store'.current_slot > fc_store.current_slot
                /\ ComputeSlotsSinceEpochStart(fc_store'.current_slot) = 0
                /\ fc_store.best_justified_checkpoint.epoch
                     > fc_store.justified_checkpoint.epoch
             THEN fc_store.best_justified_checkpoint
             ELSE fc_store.justified_checkpoint]_vars

\* an update_time to the first slot of an epoch has replaced the justified checkpoint
\* with the best justified one
C12_Witness ==
    /\ last.op = "update_time"
    /\ last.ok
    /\ ComputeSlotsSinceEpochStart(fc_store.current_slot) = 0
    /\ fc_store.justified_checkpoint # last.justified_before
    /\ fc_store.justified_checkpoint = fc_store.best_justified_checkpoint

\* the on_block that has returned had a state with a later justified epoch than the store
\* after the update_time of the call, and no later finalized epoch
RaisesJustifiedOnly ==
    /\ last.op = "on_block"
    /\ last.ok
    /\ last.justified.epoch > last.mid.justified_checkpoint.epoch
    /\ last.finalized.epoch <= last.mid.finalized_checkpoint.epoch

\* the current slot is one of the first SAFE_SLOTS_TO_UPDATE_JUSTIFIED of its epoch
InSafeSlots ==
    ComputeSlotsSinceEpochStart(fc_store.current_slot) < SAFE_SLOTS_TO_UPDATE_JUSTIFIED

\* the ancestor of the justified root of the state, at the first slot of the epoch that
\* was the justified one of the store, is the root that was the justified one of the store
NewJustifiedDescendsFromOld ==
    GetAncestor(Fc, last.justified.root,
                ComputeStartSlotAtEpoch(last.mid.justified_checkpoint.epoch)).root
        = last.mid.justified_checkpoint.root

\* C13: after an on_block whose state has a later justified epoch than the store and does
\* not advance the finalized checkpoint, the best justified checkpoint is the one of the
\* state if that has the greater epoch (else unchanged); the justified checkpoint is the
\* one of the state if the current slot is among the first SAFE_SLOTS_TO_UPDATE_JUSTIFIED
\* of its epoch or the new justified root descends from the stored one, and is unchanged
\* otherwise.
C13_JustifiedUpdatedWhenSafeOrDescendant ==
    RaisesJustifiedOnly =>
        /\ fc_store.best_justified_checkpoint =
             IF last.justified.epoch > last.mid.best_justified_checkpoint.epoch
             THEN last.justified ELSE last.mid.best_justified_checkpoint
        /\ fc_store.justified_checkpoint =
             IF InSafeSlots \/ NewJustifiedDescendsFromOld
             THEN last.justified ELSE last.mid.justified_checkpoint
        /\ fc_store.finalized_checkpoint = last.mid.finalized_checkpoint

\* past the safe slots, a state whose justified root does not descend from the stored one
\* has moved the best justified checkpoint only
C13_Witness ==
    /\ RaisesJustifiedOnly
    /\ ~InSafeSlots
    /\ ~NewJustifiedDescendsFromOld
    /\ fc_store.justified_checkpoint = last.mid.justified_checkpoint
    /\ fc_store.best_justified_checkpoint = last.justified

\* C7: an accepted attestation of the current slot or a later one changes no vote in
\* the call and is appended to the queue; one of an earlier slot is applied to the votes
\* in the call and not queued; and every call drains only attestations of slots strictly
\* below the current slot.
C7_CurrentSlotAttestationsWait ==
    /\ \A s \in last.drained : s < fc_store.current_slot
    /\ (last.op = "on_attestation" /\ last.attestation # NoAttestation) =>
         LET a == last.attestation IN
         IF a.slot >= fc_store.current_slot
         THEN /\ votes = last.votes_before
              /\ queued_attestations = Append(last.queue_before, QueuedAttestation(a))
         ELSE /\ votes = ProcessAttestingIndices(last.votes_before, a.attesting_indices,
                                                 a.beacon_block_root, a.target.epoch)
              /\ queued_attestations = last.queue_before

\* an attestation of the current slot has been accepted and queued
C7_Witness ==
    /\ last.op = "on_attestation"
    /\ last.attestation # NoAttestation
    /\ last.attestation.slot = fc_store.current_slot
    /\ queued_attestations # <<>>

\* C8: after every call the queue holds no attestation of a slot below the current slot.
C8_QueueHoldsNoEarlierSlot ==
    \A i \in 1..Len(queued_attestations) :
        queued_attestations[i].slot >= fc_store.current_slot

\* ------------------------------------------------ the SlashingDatabase at work
BlockSlots == 1..MaxBlockSlot
SourceEpochs == 0..MaxSource
TargetEpochs == (MaxSource + 1)..MaxTarget

BlockProposal(slot) == [kind |-> "block", slot |-> slot]
AttestationData(source, target) == [kind |-> "attestation", source |-> source, target |-> target]

Requests ==
    {BlockProposal(slot) : slot \in BlockSlots}
    \cup {AttestationData(p[1], p[2]) : p \in SourceEpochs \X TargetEpochs}

\* the interval of `a` strictly contains the one of `b`
Surrounds(a, b) == a.source < b.source /\ a.target > b.target

\* check_and_insert_block: fails if a block at >= slot was already signed
CheckBlockProposal(db, block) ==
    IF \E signed \in db.blocks : signed.slot >= block.slot
    THEN "DoubleBlockProposal"
    ELSE "ok"

CheckAttestationSurroundOnly(db, data) ==
    IF \E prev \in db.attestations : Surrounds(data, prev) THEN "NewSurroundsPrev"
    ELSE IF \E prev \in db.attestations : Surrounds(prev, data) THEN "PrevSurroundsNew"
    ELSE "ok"

CheckAttestationOneWay(db, data) ==
    IF \E prev \in db.attestations : prev.target = data.target THEN "DoubleVote"
    ELSE IF \E prev \in db.attestations : Surrounds(data, prev) THEN "NewSurroundsPrev"
    ELSE "ok"

\* check_and_insert_attestation: fails on a double vote (same target epoch) and on a
\* surround vote in either direction
CheckAttestation(db, data) ==
    IF \E prev \in db.attestations : prev.target = data.target THEN "DoubleVote"
    ELSE IF \E prev \in db.attestations : Surrounds(data, prev) THEN "NewSurroundsPrev"
    ELSE IF \E prev \in db.attestations : Surrounds(prev, data) THEN "PrevSurroundsNew"
    ELSE "ok"

CheckRequest(db, request) ==
    IF request.kind = "block" THEN CheckBlockProposal(db, request)
    ELSE CheckAttestation(db, request)

InsertRequest(db, request) ==
    IF request.kind = "block"
    THEN [db EXCEPT !.blocks = @ \cup {request}]
    ELSE [db EXCEPT !.attestations = @ \cup {request}]

LockIsFreeAlways(holder) == TRUE

\* a transaction on the row starts only while no other transaction holds it
LockIsFree(holder) == holder = NoCaller

Release(c) == db_lock' = IF db_lock = c THEN NoCaller ELSE db_lock

\* a thread calls check_and_insert_block or check_and_insert_attestation
SP_call ==
    \E c \in Callers, request \in Requests :
        /\ callers[c].pc = "idle"
        /\ callers' = [callers EXCEPT ![c].pc = "waiting", ![c].request = request]
        /\ UNCHANGED <<slashing_db, db_lock, proto_array, fc_vars, pool, lifo, av_vars, gp_vars, last>>

\* its transaction begins
SP_begin ==
    \E c \in Callers :
        /\ callers[c].pc = "waiting"
        /\ LockIsFree(db_lock)
        /\ db_lock' = c
        /\ callers' = [callers EXCEPT ![c].pc = "checking"]
        /\ UNCHANGED <<slashing_db, proto_array, fc_vars, pool, lifo, av_vars, gp_vars, last>>

\* the check against the rows signed so far; a refused call ends here
SP_check ==
    \E c \in Callers :
        /\ callers[c].pc = "checking"
        /\ LET verdict == CheckRequest(slashing_db, callers[c].request)
           IN IF verdict = "ok"
              THEN /\ callers' = [callers EXCEPT ![c].pc = "inserting"]
                   /\ UNCHANGED db_lock
              ELSE /\ callers' = [callers EXCEPT ![c].pc = "done", ![c].result = verdict]
                   /\ Release(c)
        /\ UNCHANGED <<slashing_db, proto_array, fc_vars, pool, lifo, av_vars, gp_vars, last>>

\* the insert and the commit
SP_insert ==
    \E c \in Callers :
        /\ callers[c].pc = "inserting"
        /\ slashing_db' = InsertRequest(slashing_db, callers[c].request)
        /\ callers' = [callers EXCEPT ![c].pc = "done", ![c].result = "ok"]
        /\ Release(c)
        /\ UNCHANGED <<proto_array, fc_vars, pool, lifo, av_vars, gp_vars, last>>

SPInit ==
    /\ proto_array = EmptyProtoArray
    /\ fc_store = <<>>
    /\ votes = <<>>
    /\ target_roots = <<>>
    /\ queued_attestations = <<>>
    /\ slots_per_epoch = SlotsPerEpoch
    /\ SlashingInit
    /\ GossipInit
    /\ pool = DefaultPool
    /\ last = [op |-> "create", ok |-> TRUE]

SPNext ==
    \/ SP_call
    \/ SP_begin
    \/ SP_check
    \/ SP_insert

SpecSP == SPInit /\ [][SPNext]_vars

\* ------------------------------------------------ claims about the SlashingDatabase
Done(c) == callers[c].pc = "done"
Succeeded(c) == Done(c) /\ callers[c].result = "ok"
Successes(group) == {c \in group : Succeeded(c)}

\* C4: of the calls of check_and_insert_block for the same slot at most one succeeds,
\* under every interleaving; once they have all returned, exactly one has succeeded
\* and every other one has failed (unless a block of a later slot was signed first).
C4_OneBlockPerSlot ==
    \A slot \in BlockSlots :
        LET group == {c \in Callers : callers[c].request = BlockProposal(slot)}
        IN /\ Cardinality(Successes(group)) <= 1
           /\ (/\ group # {}
               /\ \A c \in group : Done(c)
               /\ ~\E d \in Callers : /\ Succeeded(d)
                                      /\ callers[d].request.kind = "block"
                                      /\ callers[d].request.slot > slot) =>
                /\ Cardinality(Successes(group)) = 1
                /\ \A c \in group \ Successes(group) :
                        callers[c].result = "DoubleBlockProposal"

\* every caller has asked for a block of the same slot, and all have returned
C4_Witness ==
    /\ \A c \in Callers : Done(c) /\ callers[c].request = BlockProposal(1)
    /\ \E c \in Callers : callers[c].result = "DoubleBlockProposal"

\* C5: of the calls of check_and_insert_attestation with the same target epoch at most
\* one succeeds, whatever their sources and their interleaving; a call refused as a
\* double vote has lost to a successful one of the same target; and when all calls have
\* the same target, exactly one succeeds and every other one fails as a double vote.
C5_OneAttestationPerTarget ==
    \A target \in TargetEpochs :
        LET group == {c \in Callers : /\ callers[c].request.kind = "attestation"
                                      /\ callers[c].request.target = target}
        IN /\ Cardinality(Successes(group)) <= 1
           /\ \A c \in group :
                (Done(c) /\ callers[c].result = "DoubleVote") =>
                    \E d \in group \ {c} : Succeeded(d)
           /\ (group = Callers /\ \A c \in group : Done(c)) =>
                /\ Cardinality(Successes(group)) = 1
                /\ \A c \in group \ Successes(group) : callers[c].result = "DoubleVote"

\* all callers have returned from attestations of one target with different sources
C5_Witness ==
    /\ \A c \in Callers : /\ Done(c)
                          /\ callers[c].request.kind = "attestation"
                          /\ callers[c].request.target = MaxTarget
    /\ \A c, d \in Callers : c # d => callers[c].request.source # callers[d].request.source

PoolMaxSlot == 3
PoolMaxBlockRoot == 2
PoolMaxBits == 2
TwoDataSlot == 1

PoolOk(outcome, committee_index) ==
    [ok |-> TRUE, outcome |-> outcome, committee_index |-> committee_index]
PoolErr(error) == [ok |-> FALSE, outcome |-> error, committee_index |-> NONE]

\* a.data.tree_hash_root(): one root per AttestationData
TreeHashRoot(data) == data.slot * (PoolMaxBlockRoot + 1) + data.beacon_block_root

\* the positions of the bits that are set
SetBits(aggregation_bits) ==
    {i \in 0..(Len(aggregation_bits) - 1) : aggregation_bits[i + 1]}

FirstOf(set_bits) == CHOOSE i \in set_bits : \A j \in set_bits : i <= j

\* BitList::get: Err(OutOfBounds) past the length
BitGet(aggregation_bits, i) ==
    IF i < Len(aggregation_bits)
    THEN [ok |-> TRUE, bit |-> aggregation_bits[i + 1]]
    ELSE [ok |-> FALSE, bit |-> FALSE]

LongerOf(m, n) == IF m >= n THEN m ELSE n

BitUnionSecondOnly(x, y) == y

\* BitList::union: the bits of both, over the longer of the two lengths
BitUnion(x, y) ==
    [i \in 1..LongerOf(Len(x), Len(y)) |->
        (i <= Len(x) /\ x[i]) \/ (i <= Len(y) /\ y[i])]

\* Attestation::aggregate: the aggregation bits of both (and the sum of the signatures)
Aggregate(existing, a) ==
    [existing EXCEPT !.aggregation_bits = BitUnion(@, a.aggregation_bits)]

\* [res, map]: the result of AggregatedAttestationMap::insert and the map after it
MapResult(res, map) == [res |-> res, map |-> map]

\* lines 94-106: the data root is in the map; `known` is the result of get(committee_index)
MapInsertExisting(map, a, root, committee_index, known) ==
    IF ~known.ok THEN MapResult(PoolErr("InconsistentBitfieldLengths"), map)
    ELSE IF known.bit
    THEN MapResult(PoolOk("SignatureAlreadyKnown", committee_index), map)
    ELSE MapResult(PoolOk("SignatureAggregated", committee_index),
                   [map EXCEPT ![root] = Aggregate(@, a)])

MapInsertNewWhateverLength(map, a, root, committee_index) ==
    MapResult(PoolOk("NewAttestationData", committee_index), (root :> a) @@ map)

\* lines 107-116: the data root is not in the map
MapInsertNew(map, a, root, committee_index) ==
    IF Cardinality(DOMAIN map) >= MAX_ATTESTATIONS_PER_SLOT
    THEN MapResult(PoolErr("ReachedMaxAttestationsPerSlot"), map)
    ELSE MapResult(PoolOk("NewAttestationData", committee_index), (root :> a) @@ map)

\* lines 92-116, with the root of the data and the only bit that is set
MapInsertAt(map, a, root, committee_index) ==
    IF root \in DOMAIN map
    THEN MapInsertExisting(map, a, root, committee_index,
                           BitGet(map[root].aggregation_bits, committee_index))
    ELSE MapInsertNew(map, a, root, committee_index)

\* lines 75-116, with the positions of the bits that are set
MapInsertBits(map, a, set_bits) ==
    IF set_bits = {} THEN MapResult(PoolErr("NoAggregationBitsSet"), map)
    ELSE IF Cardinality(set_bits) > 1
    THEN MapResult(PoolErr("MoreThanOneAggregationBitSet"), map)
    ELSE MapInsertAt(map, a, TreeHashRoot(a.data), FirstOf(set_bits))

\* AggregatedAttestationMap::insert
MapInsert(map, a) == MapInsertBits(map, a, SetBits(a.aggregation_bits))

\* Slot - Slot: saturating
SaturatingSub(x, y) == IF x >= y THEN x - y ELSE 0

HighestSlots(slots, n) ==
    {s \in slots : Cardinality({t \in slots : t > s}) < n}

\* the first n of the slots sorted
LowestSlots(slots, n) ==
    {s \in slots : Cardinality({t \in slots : t < s}) < n}

Retain(maps, slots) == [s \in slots |-> maps[s]]

\* lines 282-296 of prune: no more than SLOTS_RETAINED maps are left
DropLowest(p) ==
    IF Cardinality(DOMAIN p.maps) > SLOTS_RETAINED
    THEN [p EXCEPT !.maps =
            Retain(@, DOMAIN p.maps
                        \ LowestSlots(DOMAIN p.maps,
                                      Cardinality(DOMAIN p.maps) - SLOTS_RETAINED))]
    ELSE p

\* lines 264-296 of prune, with the new lowest permissible slot
PruneTo(p, lowest_permissible_slot) ==
    IF /\ p.lowest_permissible_slot = lowest_permissible_slot
       /\ Cardinality(DOMAIN p.maps) <= SLOTS_RETAINED
    THEN p
    ELSE DropLowest([lowest_permissible_slot |-> lowest_permissible_slot,
                     maps |-> Retain(p.maps, {s \in DOMAIN p.maps :
                                                s >= lowest_permissible_slot})])

\* NaiveAggregationPool::prune
Prune(p, current_slot) == PruneTo(p, SaturatingSub(current_slot, SLOTS_RETAINED))

\* [res, pool]
PoolResult(res, p) == [res |-> res, pool |-> p]

\* lines 201-228 of insert: mr is the result of the insert into the map of the slot
PoolInsertDone(p, slot, mr) ==
    PoolResult(mr.res, Prune([p EXCEPT !.maps = (slot :> mr.map) @@ @], slot))

\* NaiveAggregationPool::insert
PoolInsert(p, a) ==
    IF a.data.slot < p.lowest_permissible_slot
    THEN PoolResult(PoolErr("SlotTooLow"), p)
    ELSE PoolInsertDone(p, a.data.slot,
            MapInsert(IF a.data.slot \in DOMAIN p.maps THEN p.maps[a.data.slot] ELSE <<>>,
                      a))

NoAttestationInPool == [data |-> [slot |-> 0, beacon_block_root |-> 0], aggregation_bits |-> <<>>]

\* NaiveAggregationPool::get: the attestation, or NoAttestationInPool for None
PoolGet(p, data) ==
    IF data.slot \in DOMAIN p.maps /\ TreeHashRoot(data) \in DOMAIN p.maps[data.slot]
    THEN p.maps[data.slot][TreeHashRoot(data)]
    ELSE NoAttestationInPool

\* ------------------------------------------------ the NaiveAggregationPool at work
BitLists == UNION {[1..n -> BOOLEAN] : n \in 1..PoolMaxBits}

\* the data given to the pool: one per slot, and further ones for the slot TwoDataSlot
AttestationDatas ==
    {d \in [slot : 0..PoolMaxSlot, beacon_block_root : 1..PoolMaxBlockRoot] :
        d.beacon_block_root = 1 \/ d.slot = TwoDataSlot}

PoolAttestations == [data : AttestationDatas, aggregation_bits : BitLists]

PoolInit ==
    /\ proto_array = EmptyProtoArray
    /\ fc_store = <<>>
    /\ votes = <<>>
    /\ target_roots = <<>>
    /\ queued_attestations = <<>>
    /\ slots_per_epoch = SlotsPerEpoch
    /\ SlashingInit
    /\ GossipInit
    /\ pool = DefaultPool
    /\ last = [op |-> "default", res |-> PoolOk("none", NONE), a |-> NoAttestationInPool,
               slot |-> 0]

\* r is the result of the call
PoolInsertReturns(r, a) ==
    /\ pool' = r.pool
    /\ last' = [op |-> "insert", res |-> r.res, a |-> a, slot |-> a.data.slot]
    /\ UNCHANGED <<proto_array, fc_vars, sp_vars, lifo, av_vars, gp_vars>>

Pool_insert == \E a \in PoolAttestations : PoolInsertReturns(PoolInsert(pool, a), a)

\* the pool is pruned with the slot of the clock, which may be ahead of the attestations
Pool_prune ==
    \E current_slot \in 0..(PoolMaxSlot + 1) :
        /\ pool' = Prune(pool, current_slot)
        /\ last' = [op |-> "prune", res |-> PoolOk("none", NONE), a |-> NoAttestationInPool,
                    slot |-> current_slot]
        /\ UNCHANGED <<proto_array, fc_vars, sp_vars, lifo, av_vars, gp_vars>>

Pool_get ==
    \E data \in AttestationDatas :
        /\ last' = [op |-> "get", res |-> PoolOk("none", NONE),
                    a |-> [data |-> data, aggregation_bits |-> <<>>],
                    slot |-> data.slot]
        /\ UNCHANGED <<pool, proto_array, fc_vars, sp_vars, lifo, av_vars, gp_vars>>

PoolNext ==
    \/ Pool_insert
    \/ Pool_prune
    \/ Pool_get

SpecPool == PoolInit /\ [][PoolNext]_vars

\* ------------------------------------------------ claims about the NaiveAggregationPool
\* the (slot, data root) pairs that have an attestation in the pool
PoolEntries(p) ==
    UNION {{<<s, r>> : r \in DOMAIN p.maps[s]} : s \in DOMAIN p.maps}

EntryBits(p, e) == SetBits(p.maps[e[1]][e[2]].aggregation_bits)

\* the call that has returned is an insert with the result Ok(outcome)
Inserted(l, outcome) == l.op = "insert" /\ l.res.ok /\ l.res.outcome = outcome

EntryOf(a) == <<a.data.slot, TreeHashRoot(a.data)>>

\* C14: the pool holds one attestation per slot and data root, of that data; an insert
\* that returns NewAttestationData leaves for its data an attestation with exactly its
\* bit, one that returns SignatureAggregated adds exactly its bit to the bits of the
\* attestation of its data, and every other retained attestation (of another data root,
\* or in any other call) keeps its bits: the bits of an aggregate are the union of the
\* bits inserted with these two outcomes since its entry was created, in any order.
C14_AggregateIsUnionOfInserted ==
    [][\A e \in PoolEntries(pool') :
        /\ EntryOf(pool'.maps[e[1]][e[2]]) = e
        /\ IF Inserted(last', "NewAttestationData") /\ e = EntryOf(last'.a)
           THEN EntryBits(pool', e) = SetBits(last'.a.aggregation_bits)
           ELSE IF Inserted(last', "SignatureAggregated") /\ e = EntryOf(last'.a)
           THEN /\ e \in PoolEntries(pool)
                /\ SetBits(last'.a.aggregation_bits) \cap EntryBits(pool, e) = {}
                /\ EntryBits(pool', e)
                     = EntryBits(pool, e) \cup SetBits(last'.a.aggregation_bits)
           ELSE /\ e \in PoolEntries(pool)
                /\ EntryBits(pool', e) = EntryBits(pool, e)]_vars

\* a second signature has been aggregated into an attestation while the pool holds an
\* attestation of another data of the same slot, with one bit
C14_Witness ==
    /\ Inserted(last, "SignatureAggregated")
    /\ EntryOf(last.a) \in PoolEntries(pool)
    /\ EntryBits(pool, EntryOf(last.a)) = {0, 1}
    /\ \E e \in PoolEntries(pool) :
         /\ e[1] = last.a.data.slot
         /\ e # EntryOf(last.a)
         /\ Cardinality(EntryBits(pool, e)) = 1

\* C15: when insert has returned Ok, get for the data of the inserted attestation returns
\* an attestation of that data in which the bit of the inserted attestation is set.
C15_InsertedIsRetrievable ==
    (last.op = "insert" /\ last.res.ok) =>
        /\ PoolGet(pool, last.a.data) # NoAttestationInPool
        /\ PoolGet(pool, last.a.data).data = last.a.data
        /\ last.res.committee_index \in SetBits(PoolGet(pool, last.a.data).aggregation_bits)

\* the insert or prune that has returned has pruned the pool with the slot last.slot
HasPruned ==
    \/ last.op = "prune"
    \/ last.op = "insert" /\ last.res.outcome # "SlotTooLow"

\* C16: after a prune with the slot s (an insert prunes with the slot of its attestation)
\* every map of the pool is of a slot >= s - SLOTS_RETAINED + 1.
C16_RetainedSlotsAreRecent ==
    HasPruned => \A s \in DOMAIN pool.maps : s + SLOTS_RETAINED >= last.slot + 1

\* C17: the pool never holds more than SLOTS_RETAINED maps; the maps that a call drops
\* are of lower slots than every map it keeps; and an insert of the slot after the
\* highest one, into maps of consecutive slots, leaves the maps of the SLOTS_RETAINED
\* most recent of these slots.
C17_AtMostSlotsRetainedHighestKept ==
    [][/\ Cardinality(DOMAIN pool'.maps) <= SLOTS_RETAINED
       /\ \A kept \in DOMAIN pool'.maps :
            /\ kept \in DOMAIN pool.maps \/ (last'.op = "insert" /\ kept = last'.slot)
            /\ \A dropped \in DOMAIN pool.maps \ DOMAIN pool'.maps : dropped < kept
       /\ (/\ last'.op = "insert"
           /\ last'.res.ok
           /\ \E low \in 0..PoolMaxSlot : DOMAIN pool.maps = low..(last'.slot - 1)) =>
            DOMAIN pool'.maps =
                {s \in DOMAIN pool.maps \cup {last'.slot} : s + SLOTS_RETAINED > last'.slot}
      ]_vars

\* inserts of consecutive slots have left the maps of the SLOTS_RETAINED most recent
\* slots, the map of the lowest slot having been dropped
C17_Witness ==
    /\ Inserted(last, "NewAttestationData")
    /\ last.slot >= SLOTS_RETAINED
    /\ DOMAIN pool.maps = (last.slot - SLOTS_RETAINED + 1)..last.slot
    /\ \A s \in DOMAIN pool.maps : pool.maps[s] # <<>>

\* C18: the lowest permissible slot of the pool never moves down, so that an insert of a
\* slot below it stays refused.
C18_LowestPermissibleSlotNeverMovesDown ==
    [][pool'.lowest_permissible_slot >= pool.lowest_permissible_slot]_vars

\* C19: an insert that returns an error leaves the pool as it was: the same maps, the
\* same attestations and the same lowest permissible slot.
C19_FailedInsertChangesNothing ==
    [][(last'.op = "insert" /\ ~last'.res.ok) => pool' = pool]_vars

\* C20: after an insert that has returned Ok, an insert of the same attestation returns
\* SignatureAlreadyKnown with the same committee index, and get for the data of the
\* attestation returns the same after it as before it.
C20_SecondInsertIsAlreadyKnown ==
    (last.op = "insert" /\ last.res.ok) =>
        /\ PoolInsert(pool, last.a).res
             = PoolOk("SignatureAlreadyKnown", last.res.committee_index)
        /\ PoolGet(PoolInsert(pool, last.a).pool, last.a.data) = PoolGet(pool, last.a.data)

\* ------------------------------------- the NaiveAggregationPool with a bucket at its limit
\* The pool after MAX_ATTESTATIONS_PER_SLOT - 1 inserts of attestations of slot 0 that
\* differ in their beacon block root (the loop of tests::max_attestations, one short of
\* the limit), each signed by the validator of committee position 0.
LimitSlot == 0

NearlyFullBucket ==
    [r \in 1..(MAX_ATTESTATIONS_PER_SLOT - 1) |->
        [data |-> [slot |-> LimitSlot, beacon_block_root |-> r],
         aggregation_bits |-> <<TRUE, FALSE>>]]

\* data already in the bucket, and the next two new ones
LimitBlockRoots == {1, MAX_ATTESTATIONS_PER_SLOT, MAX_ATTESTATIONS_PER_SLOT + 1}

LimitDatas == [slot : {LimitSlot}, beacon_block_root : LimitBlockRoots]

LimitAttestations == [data : LimitDatas, aggregation_bits : BitLists]

LimitInit ==
    /\ proto_array = EmptyProtoArray
    /\ fc_store = <<>>
    /\ votes = <<>>
    /\ target_roots = <<>>
    /\ queued_attestations = <<>>
    /\ slots_per_epoch = SlotsPerEpoch
    /\ SlashingInit
    /\ GossipInit
    /\ pool = [lowest_permissible_slot |-> 0, maps |-> (LimitSlot :> NearlyFullBucket)]
    /\ last = [op |-> "default", res |-> PoolOk("none", NONE), a |-> NoAttestationInPool,
               slot |-> 0]

Limit_insert == \E a \in LimitAttestations : PoolInsertReturns(PoolInsert(pool, a), a)

Limit_get ==
    \E data \in LimitDatas :
        /\ last' = [op |-> "get", res |-> PoolOk("none", NONE),
                    a |-> [data |-> data, aggregation_bits |-> <<>>],
                    slot |-> data.slot]
        /\ UNCHANGED <<pool, proto_array, fc_vars, sp_vars, lifo, av_vars, gp_vars>>

LimitNext ==
    \/ Limit_insert
    \/ Limit_get

SpecPoolLimit == LimitInit /\ [][LimitNext]_vars

\* the bucket of the slot of the data, empty when the pool has none
BucketOf(p, slot) == IF slot \in DOMAIN p.maps THEN p.maps[slot] ELSE <<>>

\* C21: no bucket of the pool ever holds more than MAX_ATTESTATIONS_PER_SLOT
\* attestation data: an insert of new data into a bucket that holds
\* MAX_ATTESTATIONS_PER_SLOT of them returns ReachedMaxAttestationsPerSlot, an insert of
\* new data into a bucket below the limit is accepted as NewAttestationData, and an
\* insert of a new signature for data of the bucket is aggregated, at the limit too.
C21_BucketNeverExceedsMaxAttestationsPerSlot ==
    /\ \A s \in DOMAIN pool.maps :
            Cardinality(DOMAIN pool.maps[s]) <= MAX_ATTESTATIONS_PER_SLOT
    /\ \A a \in LimitAttestations :
        (/\ a.data.slot >= pool.lowest_permissible_slot
         /\ Cardinality(SetBits(a.aggregation_bits)) = 1) =>
            IF TreeHashRoot(a.data) \in DOMAIN BucketOf(pool, a.data.slot)
            THEN LET known == BitGet(BucketOf(pool, a.data.slot)[TreeHashRoot(a.data)]
                                        .aggregation_bits,
                                     FirstOf(SetBits(a.aggregation_bits)))
                 IN  (known.ok /\ ~known.bit) =>
                        PoolInsert(pool, a).res.outcome = "SignatureAggregated"
            ELSE IF Cardinality(DOMAIN BucketOf(pool, a.data.slot))
                        >= MAX_ATTESTATIONS_PER_SLOT
            THEN PoolInsert(pool, a).res
                    = PoolErr("ReachedMaxAttestationsPerSlot")
            ELSE PoolInsert(pool, a).res.outcome = "NewAttestationData"

\* an insert of new data has been refused by a bucket that holds
\* MAX_ATTESTATIONS_PER_SLOT attestation data, one of them aggregated at the limit
C21_Witness ==
    /\ last.op = "insert"
    /\ last.res = PoolErr("ReachedMaxAttestationsPerSlot")
    /\ Cardinality(DOMAIN BucketOf(pool, last.slot)) = MAX_ATTESTATIONS_PER_SLOT
    /\ TreeHashRoot(last.a.data) \notin DOMAIN BucketOf(pool, last.slot)
    /\ \E r \in DOMAIN BucketOf(pool, last.slot) :
            BucketOf(pool, last.slot)[r].aggregation_bits = <<TRUE, TRUE>>

\* ------------------------------------------------------------ attestation verification
\* A piece of work is [kind, attestation, signatures_valid] and, for an aggregate, the
\* aggregator_index and selection proof of the SignedAggregateAndProof (as is_aggregator,
\* the result of SelectionProof::is_aggregator).  The attestation is [data,
\* aggregation_bits] with data = [slot, index, beacon_block_root, target = [epoch, root]].

\* the blocks that fork choice contains
ForkChoiceBlocks == {1}

\* the beacon committee of every slot for the committee index 0 (no other index has a
\* committee): the validator indices by position
BeaconCommittee == <<2, 1>>

\* validator_pubkey_cache.len()
PubkeyCacheLen == 3

Staged(r, stage) == [r EXCEPT !.stages = Append(@, stage)]

Finished(r, result) == [r EXCEPT !.pc = "done", !.result = result, !.held = {}]

\* attestation.tree_hash_root(): one root per attestation
AttestationRoot(attestation) ==
    <<attestation.data.slot, attestation.data.index, attestation.data.beacon_block_root,
      attestation.data.target.epoch, attestation.data.target.root,
      attestation.aggregation_bits>>

\* verify_propagation_slot_range
VerifyPropagationSlotRange(c, attestation) ==
    IF attestation.data.slot > c.now_with_future_tolerance THEN "FutureSlot"
    ELSE IF attestation.data.slot
                < SaturatingSub(c.now_with_past_tolerance, slots_per_epoch)
    THEN "PastSlot"
    ELSE "Ok"

\* verify_head_block_is_known
VerifyHeadBlockIsKnown(attestation) ==
    IF attestation.data.beacon_block_root \in ForkChoiceBlocks THEN "Ok"
    ELSE "UnknownHeadBlock"

\* map_attestation_committee, lines 794-797: the target root is looked up in fork choice
TargetLookup(r) ==
    IF r.work.attestation.data.target.root \in ForkChoiceBlocks
    THEN [r EXCEPT !.pc = "lock_shuffling_cache"]
    ELSE Finished(r, "UnknownTargetRoot")

\* VerifiedUnaggregatedAttestation::verify, lines 366-378 and the first lines of
\* map_attestation_committee: the checks that read the clock and fork choice only
BeginHeadBlock(r) ==
    IF VerifyHeadBlockIsKnown(r.work.attestation) # "Ok"
    THEN Finished(r, VerifyHeadBlockIsKnown(r.work.attestation))
    ELSE TargetLookup(Staged(r, "committee"))

BeginBitCount(r) ==
    IF Cardinality(SetBits(r.work.attestation.aggregation_bits)) # 1
    THEN Finished(r, "NotExactlyOneAggregationBitSet")
    ELSE BeginHeadBlock(Staged(r, "head_block"))

BeginSlotRange(c, r) ==
    IF VerifyPropagationSlotRange(c, r.work.attestation) # "Ok"
    THEN Finished(r, VerifyPropagationSlotRange(c, r.work.attestation))
    ELSE BeginBitCount(Staged(r, "bit_count"))

BeginUnaggregatedBitCountFirst(c, r) ==
    IF Cardinality(SetBits(r.work.attestation.aggregation_bits)) # 1
    THEN Finished(Staged(r, "bit_count"), "NotExactlyOneAggregationBitSet")
    ELSE IF VerifyPropagationSlotRange(c, r.work.attestation) # "Ok"
    THEN Finished(Staged(Staged(r, "bit_count"), "slot_window"),
                  VerifyPropagationSlotRange(c, r.work.attestation))
    ELSE BeginHeadBlock(Staged(Staged(Staged(r, "bit_count"), "slot_window"),
                               "head_block"))

BeginUnaggregated(c, r) == BeginSlotRange(c, Staged(r, "slot_window"))

\* VerifiedAggregatedAttestation::verify, lines 237-252: the slot range, and whether the
\* root of the aggregate has been observed
BeginAggregated(c, r) ==
    IF VerifyPropagationSlotRange(c, r.work.attestation) # "Ok"
    THEN Finished(Staged(r, "slot_window"),
                  VerifyPropagationSlotRange(c, r.work.attestation))
    ELSE IF AttestationRoot(r.work.attestation) \in c.observed_attestations
    THEN Finished(Staged(Staged(r, "slot_window"), "aggregate_dedup"),
                  "AttestationAlreadyKnown")
    ELSE [Staged(Staged(r, "slot_window"), "aggregate_dedup")
            EXCEPT !.pc = "aggregator_known"]

\* lines 254-280: whether the aggregator has been observed for the target epoch, then the
\* head block and the target root
AggregatorKnown(c, r) ==
    IF <<r.work.aggregator_index, r.work.attestation.data.target.epoch>>
            \in c.observed_aggregators
    THEN Finished(Staged(r, "aggregator_dedup"), "AggregatorAlreadyKnown")
    ELSE BeginHeadBlock(Staged(Staged(r, "aggregator_dedup"), "head_block"))

\* the key of the shuffling cache
ShufflingKey(attestation) ==
    <<EpochOf(attestation.data.slot), attestation.data.target.root>>

\* get_indexed_attestation: the validators of the committee at the positions that are set
AttestingIndices(committee, aggregation_bits) ==
    {committee[p + 1] : p \in {q \in SetBits(aggregation_bits) : q < Len(committee)}}

\* the map_fn of VerifiedAggregatedAttestation::verify, lines 282-304
AggregateMapFn(r, next) ==
    IF ~r.work.is_aggregator THEN Finished(Staged(r, "selection_proof"), "InvalidSelectionProof")
    ELSE IF \A p \in 1..Len(BeaconCommittee) : BeaconCommittee[p] # r.work.aggregator_index
    THEN Finished(Staged(Staged(r, "selection_proof"), "aggregator_in_committee"),
                  "AggregatorNotInCommittee")
    ELSE [Staged(Staged(r, "selection_proof"), "aggregator_in_committee")
            EXCEPT !.pc = next, !.held = {},
                   !.attesting_indices =
                        AttestingIndices(BeaconCommittee, r.work.attestation.aggregation_bits)]

\* get_beacon_committee(slot, index).map(map_fn), and the end of map_attestation_committee,
\* which gives up the shuffling cache
WithCommittee(r) ==
    IF r.work.attestation.data.index # 0 THEN Finished(r, "NoCommitteeForSlotAndIndex")
    ELSE IF r.work.kind = "aggregate" THEN AggregateMapFn(r, "lock_validator_pubkey_cache")
    ELSE [r EXCEPT !.pc = "attester_known", !.held = {},
                   !.attesting_indices =
                        AttestingIndices(BeaconCommittee, r.work.attestation.aggregation_bits)]

\* the validator of an unaggregated attestation: attesting_indices.first()
ValidatorIndex(r) == CHOOSE i \in r.attesting_indices : TRUE

\* observe_validator of the observed attesters and aggregators: whether the validator had
\* been observed for the epoch, and the set with it
ObserveValidator(observed, seen) ==
    [already |-> seen \in observed, observed |-> observed \cup {seen}]

\* observe_attestation of the observed attestations, with AlreadyKnown as already
ObserveAttestation(observed, root) ==
    [already |-> root \in observed, observed |-> observed \cup {root}]

ObservedAttesterResultUnchecked(already) == "Ok"

\* lines 416-431: the double check of what observe_validator has found
ObservedAttesterResult(already) == IF already THEN "PriorAttestationKnown" ELSE "Ok"

SeenAttester(r) == <<ValidatorIndex(r), r.work.attestation.data.target.epoch>>

SeenAggregator(r) == <<r.work.aggregator_index, r.work.attestation.data.target.epoch>>

\* ------------------------------------------------ the verification threads at work
VerifierMoves(v, r) == verifiers' = [verifiers EXCEPT ![v] = r]

AV_unchanged ==
    UNCHANGED <<proto_array, fc_vars, sp_vars, pool, lifo, gp_vars, last>>

\* the call of verify with the work
AV_verify(v, work) ==
    /\ verifiers[v].pc = "idle"
    /\ VerifierMoves(v, [IdleVerifier EXCEPT !.pc = "begin", !.work = work])
    /\ UNCHANGED chain
    /\ AV_unchanged

AV_begin_unaggregated(v) ==
    /\ verifiers[v].pc = "begin"
    /\ verifiers[v].work.kind = "attestation"
    /\ VerifierMoves(v, BeginUnaggregated(chain, verifiers[v]))
    /\ UNCHANGED chain
    /\ AV_unchanged

AV_begin_aggregated(v) ==
    /\ verifiers[v].pc = "begin"
    /\ verifiers[v].work.kind = "aggregate"
    /\ VerifierMoves(v, BeginAggregated(chain, verifiers[v]))
    /\ UNCHANGED chain
    /\ AV_unchanged

AV_aggregator_known(v) ==
    /\ verifiers[v].pc = "aggregator_known"
    /\ VerifierMoves(v, AggregatorKnown(chain, verifiers[v]))
    /\ UNCHANGED chain
    /\ AV_unchanged

\* shuffling_cache.try_write_for, lines 803-806: the lock is taken, or the wait for
\* another thread that holds it times out
AV_lock_shuffling_cache(v) ==
    /\ verifiers[v].pc = "lock_shuffling_cache"
    /\ IF chain.shuffling_cache_writer = NoVerifier
       THEN /\ chain' = [chain EXCEPT !.shuffling_cache_writer = v]
            /\ VerifierMoves(v, [verifiers[v] EXCEPT !.pc = "shuffling_cache",
                                                     !.held = {"shuffling_cache"}])
       ELSE /\ UNCHANGED chain
            /\ VerifierMoves(v, Finished(verifiers[v], "AttestationCacheLockTimeout"))
    /\ AV_unchanged

\* lines 810-824: with the cache, the committee is read on a hit and the lock given up
\* on a miss
AV_shuffling_cache(v) ==
    /\ verifiers[v].pc = "shuffling_cache"
    /\ chain' = [chain EXCEPT !.shuffling_cache_writer = NoVerifier]
    /\ IF ShufflingKey(verifiers[v].work.attestation) \in chain.shuffling_cache
       THEN VerifierMoves(v, WithCommittee(verifiers[v]))
       ELSE VerifierMoves(v, [verifiers[v] EXCEPT !.pc = "build_committee_cache",
                                                  !.held = {}])
    /\ AV_unchanged

\* lines 826-852: the committee cache is built from the state with no lock held, and
\* inserted into the shuffling cache under its lock
AV_build_committee_cache(v) ==
    /\ verifiers[v].pc = "build_committee_cache"
    /\ IF chain.shuffling_cache_writer = NoVerifier
       THEN /\ chain' = [chain EXCEPT !.shuffling_cache =
                            @ \cup {ShufflingKey(verifiers[v].work.attestation)}]
            /\ VerifierMoves(v, WithCommittee(verifiers[v]))
       ELSE /\ UNCHANGED chain
            /\ VerifierMoves(v, Finished(verifiers[v], "AttestationCacheLockTimeout"))
    /\ AV_unchanged

\* lines 394-406: observed_attesters.validator_has_been_observed
AV_attester_known(v) ==
    /\ verifiers[v].pc = "attester_known"
    /\ IF SeenAttester(verifiers[v]) \in chain.observed_attesters
       THEN VerifierMoves(v, Finished(Staged(verifiers[v], "attester_dedup"),
                                      "PriorAttestationKnown"))
       ELSE VerifierMoves(v, [Staged(Staged(verifiers[v], "attester_dedup"), "signature")
                                EXCEPT !.pc = "lock_validator_pubkey_cache"])
    /\ UNCHANGED chain
    /\ AV_unchanged

\* validator_pubkey_cache.try_read_for, lines 609-612 and 663-671
AV_lock_validator_pubkey_cache(v) ==
    /\ verifiers[v].pc = "lock_validator_pubkey_cache"
    /\ IF /\ verifiers[v].work.kind = "aggregate"
          /\ verifiers[v].work.aggregator_index >= PubkeyCacheLen
       THEN /\ UNCHANGED chain
            /\ VerifierMoves(v, Finished(verifiers[v], "AggregatorPubkeyUnknown"))
       ELSE /\ chain' = [chain EXCEPT !.validator_pubkey_cache_readers = @ \cup {v}]
            /\ VerifierMoves(v, [verifiers[v] EXCEPT !.pc = "lock_canonical_head",
                                    !.held = {"validator_pubkey_cache"}])
    /\ AV_unchanged

\* canonical_head.try_read_for, lines 614-618 and 673-677: pubkey_cache is still in scope
AV_lock_canonical_head(v) ==
    /\ verifiers[v].pc = "lock_canonical_head"
    /\ chain' = [chain EXCEPT !.canonical_head_readers = @ \cup {v}]
    /\ VerifierMoves(v, [verifiers[v] EXCEPT !.pc = "signature",
                            !.held = @ \cup {"canonical_head"}])
    /\ AV_unchanged

\* lines 618-643 and 677-719: the fork is copied and the head given up, the signatures
\* are verified, and the pubkey cache is given up at the end of the function; then lines
\* 306-308 and 408-409
AV_signature(v) ==
    /\ verifiers[v].pc = "signature"
    /\ chain' = [chain EXCEPT !.canonical_head_readers = @ \ {v},
                              !.validator_pubkey_cache_readers = @ \ {v}]
    /\ IF ~verifiers[v].work.signatures_valid
       THEN VerifierMoves(v, Finished(verifiers[v], "InvalidSignature"))
       ELSE VerifierMoves(v, [verifiers[v] EXCEPT
                !.held = {},
                !.pc = IF verifiers[v].work.kind = "aggregate"
                       THEN "observe_attestation" ELSE "observe_attester"])
    /\ AV_unchanged

\* lines 411-426: observed_attesters.observe_validator
AV_observe_attester(v) ==
    /\ verifiers[v].pc = "observe_attester"
    /\ chain' = [chain EXCEPT !.observed_attesters =
                    ObserveValidator(@, SeenAttester(verifiers[v])).observed]
    /\ VerifierMoves(v, Finished(Staged(verifiers[v], "observe"),
            ObservedAttesterResult(
                ObserveValidator(chain.observed_attesters, SeenAttester(verifiers[v]))
                    .already)))
    /\ AV_unchanged

\* lines 310-320: observed_attestations.observe_attestation
AV_observe_attestation(v) ==
    /\ verifiers[v].pc = "observe_attestation"
    /\ chain' = [chain EXCEPT !.observed_attestations =
                    ObserveAttestation(@, AttestationRoot(verifiers[v].work.attestation))
                        .observed]
    /\ IF ObserveAttestation(chain.observed_attestations,
                             AttestationRoot(verifiers[v].work.attestation)).already
       THEN VerifierMoves(v, Finished(Staged(verifiers[v], "observe_attestation"),
                                      "AttestationAlreadyKnown"))
       ELSE VerifierMoves(v, [Staged(verifiers[v], "observe_attestation")
                                EXCEPT !.pc = "observe_aggregator"])
    /\ AV_unchanged

\* lines 322-336: observed_aggregators.observe_validator
AV_observe_aggregator(v) ==
    /\ verifiers[v].pc = "observe_aggregator"
    /\ chain' = [chain EXCEPT !.observed_aggregators =
                    ObserveValidator(@, SeenAggregator(verifiers[v])).observed]
    /\ IF ObserveValidator(chain.observed_aggregators, SeenAggregator(verifiers[v])).already
       THEN VerifierMoves(v, Finished(Staged(verifiers[v], "observe_aggregator"),
                                      "PriorAttestationKnown"))
       ELSE VerifierMoves(v, Finished(Staged(verifiers[v], "observe_aggregator"), "Ok"))
    /\ AV_unchanged

\* the thread has returned from verify and takes the next piece of work
AV_return(v) ==
    /\ verifiers[v].pc = "done"
    /\ VerifierMoves(v, IdleVerifier)
    /\ UNCHANGED chain
    /\ AV_unchanged

\* -------------------------------------------- one thread verifying one after another
\* the slots of the attestations: before, in and after the propagation range of the clocks
VerifySlots == {0, 2, 5}
VerifyEpoch == 1
MaxBlockRootSeen == 2
MaxCommitteeIndex == 1

\* the readings of the slot clock: less than an epoch after genesis, and later, with the
\* future tolerance in the next slot
Clocks == {ChainAt(1, 1), ChainAt(3, 4)}

CommitteeBits == [1..Len(BeaconCommittee) -> BOOLEAN]

UnaggregatedWorks ==
    [kind : {"attestation"},
     attestation :
        [data : [slot : VerifySlots,
                 index : 0..MaxCommitteeIndex,
                 beacon_block_root : 1..MaxBlockRootSeen,
                 target : [epoch : {VerifyEpoch}, root : 1..MaxBlockRootSeen]],
         aggregation_bits : CommitteeBits],
     signatures_valid : BOOLEAN]

\* an aggregate of the slot in the propagation range, for the known block
WellFormed(aggregation_bits) ==
    [data |-> [slot |-> 2, index |-> 0, beacon_block_root |-> 1,
               target |-> [epoch |-> VerifyEpoch, root |-> 1]],
     aggregation_bits |-> aggregation_bits]

AggregatedWorks ==
    [kind : {"aggregate"},
     attestation : {WellFormed(<<TRUE, TRUE>>)},
     aggregator_index : {1, PubkeyCacheLen},
     is_aggregator : BOOLEAN,
     signatures_valid : BOOLEAN]

SeqInit ==
    /\ proto_array = EmptyProtoArray
    /\ fc_store = <<>>
    /\ votes = <<>>
    /\ target_roots = <<>>
    /\ queued_attestations = <<>>
    /\ slots_per_epoch = SlotsPerEpoch
    /\ SlashingInit
    /\ pool = DefaultPool
    /\ lifo = LifoQueueNew(MAX_AGGREGATED_ATTESTATION_QUEUE_LEN)
    /\ chain \in Clocks
    /\ verifiers = [v \in Verifiers |-> IdleVerifier]
    /\ processor = ProcessorNew(MaxWorkers)
    /\ event_rx = <<>>
    /\ workers = <<>>
    /\ emitted = <<>>
    /\ last = [op |-> "new", ok |-> TRUE]

TheVerifier == 1

SeqNext ==
    \/ \E work \in UnaggregatedWorks \cup AggregatedWorks : AV_verify(TheVerifier, work)
    \/ AV_begin_unaggregated(TheVerifier)
    \/ AV_begin_aggregated(TheVerifier)
    \/ AV_aggregator_known(TheVerifier)
    \/ AV_lock_shuffling_cache(TheVerifier)
    \/ AV_shuffling_cache(TheVerifier)
    \/ AV_build_committee_cache(TheVerifier)
    \/ AV_attester_known(TheVerifier)
    \/ AV_lock_validator_pubkey_cache(TheVerifier)
    \/ AV_lock_canonical_head(TheVerifier)
    \/ AV_signature(TheVerifier)
    \/ AV_observe_attester(TheVerifier)
    \/ AV_observe_attestation(TheVerifier)
    \/ AV_observe_aggregator(TheVerifier)
    \/ AV_return(TheVerifier)

SpecVerify == SeqInit /\ [][SeqNext]_vars

\* ------------------------------------------------ threads verifying at the same time
\* attestations and aggregates that pass every check made before the observed sets
RaceWorks ==
    [kind : {"attestation"},
     attestation : {WellFormed(<<TRUE, FALSE>>), WellFormed(<<FALSE, TRUE>>)},
     signatures_valid : BOOLEAN]
    \cup
    [kind : {"aggregate"},
     attestation : {WellFormed(<<TRUE, FALSE>>), WellFormed(<<TRUE, TRUE>>)},
     aggregator_index : {1, 2},
     is_aggregator : {TRUE},
     signatures_valid : {TRUE}]

RaceInit ==
    /\ proto_array = EmptyProtoArray
    /\ fc_store = <<>>
    /\ votes = <<>>
    /\ target_roots = <<>>
    /\ queued_attestations = <<>>
    /\ slots_per_epoch = SlotsPerEpoch
    /\ SlashingInit
    /\ pool = DefaultPool
    /\ lifo = LifoQueueNew(MAX_AGGREGATED_ATTESTATION_QUEUE_LEN)
    /\ chain = ChainAt(3, 4)
    /\ verifiers = [v \in Verifiers |-> IdleVerifier]
    /\ processor = ProcessorNew(MaxWorkers)
    /\ event_rx = <<>>
    /\ workers = <<>>
    /\ emitted = <<>>
    /\ last = [op |-> "new", ok |-> TRUE]

RaceNext ==
    \E v \in Verifiers :
        \/ \E work \in RaceWorks : AV_verify(v, work)
        \/ AV_begin_unaggregated(v)
        \/ AV_begin_aggregated(v)
        \/ AV_aggregator_known(v)
        \/ AV_lock_shuffling_cache(v)
        \/ AV_shuffling_cache(v)
        \/ AV_build_committee_cache(v)
        \/ AV_attester_known(v)
        \/ AV_lock_validator_pubkey_cache(v)
        \/ AV_lock_canonical_head(v)
        \/ AV_signature(v)
        \/ AV_observe_attester(v)
        \/ AV_observe_attestation(v)
        \/ AV_observe_aggregator(v)

SpecVerifyRace == RaceInit /\ [][RaceNext]_vars

\* ---------------------------------------- claims about the attestation verification
\* the thread has returned from the verification of an unaggregated attestation
ReturnedUnaggregated(v) ==
    verifiers[v].pc = "done" /\ verifiers[v].work.kind = "attestation"

ReturnedAggregated(v) ==
    verifiers[v].pc = "done" /\ verifiers[v].work.kind = "aggregate"

\* the stage at which the verification has returned
LastStage(v) == verifiers[v].stages[Len(verifiers[v].stages)]

\* both attestations are of the same validator and the same target epoch
SameAttester(v, w) ==
    /\ verifiers[v].attesting_indices # {}
    /\ verifiers[v].attesting_indices = verifiers[w].attesting_indices
    /\ verifiers[v].work.attestation.data.target.epoch
            = verifiers[w].work.attestation.data.target.epoch

\* C22: of the concurrent verifications of unaggregated attestations of the same
\* validator and the same target epoch at most one returns Ok, however their steps are
\* interleaved; a verification that has passed the stages before the attester dedup and
\* has a valid signature returns Ok or PriorAttestationKnown, and PriorAttestationKnown
\* when another one has returned Ok.
C22_AtMostOneOkPerAttesterAndEpoch ==
    \A v, w \in Verifiers :
        (v # w /\ ReturnedUnaggregated(v) /\ ReturnedUnaggregated(w) /\ SameAttester(v, w))
            => /\ ~(verifiers[v].result = "Ok" /\ verifiers[w].result = "Ok")
               /\ verifiers[v].work.signatures_valid
                    => verifiers[v].result \in {"Ok", "PriorAttestationKnown"}
               /\ (verifiers[v].work.signatures_valid /\ verifiers[w].result = "Ok")
                    => verifiers[v].result = "PriorAttestationKnown"

\* two attestations of the same validator and target epoch have both passed the first
\* dedup check before either was observed: one has returned Ok and the other
\* PriorAttestationKnown from the observe stage
C22_Witness ==
    \E v, w \in Verifiers :
        /\ v # w /\ ReturnedUnaggregated(v) /\ ReturnedUnaggregated(w) /\ SameAttester(v, w)
        /\ LastStage(v) = "observe" /\ LastStage(w) = "observe"
        /\ verifiers[v].result = "Ok"
        /\ verifiers[w].result = "PriorAttestationKnown"

\* C23: a verification of an aggregate that finds at the final observe step what another
\* thread has observed in the meantime returns the errors of the early dedup checks:
\* AttestationAlreadyKnown for the root of the aggregate, AggregatorAlreadyKnown for the
\* aggregator index and target epoch.
C23_ObserveRaceYieldsDedupErrors ==
    \A v \in Verifiers :
        (ReturnedAggregated(v) /\ verifiers[v].result # "Ok") =>
            /\ LastStage(v) = "observe_attestation"
                    => verifiers[v].result = "AttestationAlreadyKnown"
            /\ LastStage(v) = "observe_aggregator"
                    => verifiers[v].result = "AggregatorAlreadyKnown"

\* what the stages of an unaggregated verification are, in their order
UnaggregatedStages ==
    <<"slot_window", "bit_count", "head_block", "committee", "attester_dedup",
      "signature", "observe">>

IsPrefix(s, t) == Len(s) <= Len(t) /\ \A i \in 1..Len(s) : s[i] = t[i]

\* the stages evaluated are the first n in their order and the result is that of stage n
StoppedAt(v, n, results) ==
    /\ Len(verifiers[v].stages) = n
    /\ verifiers[v].result \in results

\* C24: the verification of an unaggregated attestation evaluates its stages in the
\* order slot window (FutureSlot before PastSlot, the lower end of the window
\* saturating at slot 0), bit count, known head block, committee resolution, attester
\* dedup, signature, observe; it returns the error of the first stage that fails and
\* evaluates no stage after it.
C24_FirstFailingStageDecides ==
    ReturnedUnaggregated(TheVerifier) =>
        LET a == verifiers[TheVerifier].work.attestation
        IN  /\ IsPrefix(verifiers[TheVerifier].stages, UnaggregatedStages)
            /\ IF a.data.slot > chain.now_with_future_tolerance
               THEN StoppedAt(TheVerifier, 1, {"FutureSlot"})
               ELSE IF a.data.slot + slots_per_epoch < chain.now_with_past_tolerance
               THEN StoppedAt(TheVerifier, 1, {"PastSlot"})
               ELSE IF Cardinality({i \in DOMAIN a.aggregation_bits : a.aggregation_bits[i]}) # 1
               THEN StoppedAt(TheVerifier, 2, {"NotExactlyOneAggregationBitSet"})
               ELSE IF a.data.beacon_block_root \notin ForkChoiceBlocks
               THEN StoppedAt(TheVerifier, 3, {"UnknownHeadBlock"})
               ELSE IF a.data.target.root \notin ForkChoiceBlocks
               THEN StoppedAt(TheVerifier, 4, {"UnknownTargetRoot"})
               ELSE IF a.data.index # 0
               THEN StoppedAt(TheVerifier, 4, {"NoCommitteeForSlotAndIndex"})
               ELSE IF LastStage(TheVerifier) = "attester_dedup"
               THEN StoppedAt(TheVerifier, 5, {"PriorAttestationKnown"})
               ELSE IF ~verifiers[TheVerifier].work.signatures_valid
               THEN StoppedAt(TheVerifier, 6, {"InvalidSignature"})
               ELSE /\ StoppedAt(TheVerifier, 7, {"Ok"})
                    /\ SeenAttester(verifiers[TheVerifier]) \in chain.observed_attesters

\* an attestation with a bad signature, of a validator that has been observed, has been
\* refused by the attester dedup, and no signature has been looked at
C24_Witness ==
    /\ ReturnedUnaggregated(TheVerifier)
    /\ ~verifiers[TheVerifier].work.signatures_valid
    /\ verifiers[TheVerifier].result = "PriorAttestationKnown"
    /\ LastStage(TheVerifier) = "attester_dedup"
    /\ verifiers[TheVerifier].work.attestation.data.slot = 0
    /\ chain.now_with_past_tolerance < slots_per_epoch

\* C30: no thread that verifies an attestation ever holds two of the shared locks at
\* the same time.
C30_NeverTwoLocksHeld ==
    \A v \in Verifiers : Cardinality(verifiers[v].held) <= 1

\* ------------------------------------------------------------------------- LifoQueue
\* The queue holds its items front first.  The items pushed are numbered in the order of
\* the pushes, so that a later push has a higher number.
LifoMaxLength == 3
LifoMaxPushes == 6

LifoPushKeepingAll(q, item) == [q EXCEPT !.queue = <<item>> \o @]

\* LifoQueue::push
LifoPush(q, item) ==
    IF Len(q.queue) = q.max_length
    THEN [q EXCEPT !.queue = <<item>> \o SubSeq(@, 1, Len(@) - (IF @ = <<>> THEN 0 ELSE 1))]
    ELSE [q EXCEPT !.queue = <<item>> \o @]

\* LifoQueue::pop: the item (NONE for None) and the queue after it
LifoPop(q) ==
    IF q.queue = <<>> THEN [item |-> NONE, q |-> q]
    ELSE [item |-> Head(q.queue), q |-> [q EXCEPT !.queue = Tail(@)]]

\* LifoQueue::is_full
LifoIsFull(q) == Len(q.queue) >= q.max_length

\* LifoQueue::len
LifoLen(q) == Len(q.queue)

LifoInit ==
    /\ proto_array = EmptyProtoArray
    /\ fc_store = <<>>
    /\ votes = <<>>
    /\ target_roots = <<>>
    /\ queued_attestations = <<>>
    /\ slots_per_epoch = SlotsPerEpoch
    /\ SlashingInit
    /\ pool = DefaultPool
    /\ lifo \in {LifoQueueNew(max_length) : max_length \in 1..LifoMaxLength}
    /\ chain = ChainAt(0, 0)
    /\ verifiers = [v \in Verifiers |-> IdleVerifier]
    /\ processor = ProcessorNew(MaxWorkers)
    /\ event_rx = <<>>
    /\ workers = <<>>
    /\ emitted = <<>>
    /\ last = [op |-> "new", item |-> NONE, pushed |-> 0]

Lifo_unchanged ==
    UNCHANGED <<proto_array, fc_vars, sp_vars, pool, av_vars, gp_vars>>

Lifo_push ==
    /\ last.pushed < LifoMaxPushes
    /\ lifo' = LifoPush(lifo, last.pushed + 1)
    /\ last' = [op |-> "push", item |-> last.pushed + 1, pushed |-> last.pushed + 1]
    /\ Lifo_unchanged

Lifo_pop ==
    /\ lifo' = LifoPop(lifo).q
    /\ last' = [op |-> "pop", item |-> LifoPop(lifo).item, pushed |-> last.pushed]
    /\ Lifo_unchanged

LifoNext ==
    \/ Lifo_push
    \/ Lifo_pop

SpecLifo == LifoInit /\ [][LifoNext]_vars

\* the items in the queue
LifoItems(q) == {q.queue[i] : i \in 1..Len(q.queue)}

\* the item of the set that was pushed last, and the one that was pushed first
MostRecent(items) == CHOOSE i \in items : \A j \in items : j <= i

Oldest(items) == CHOOSE i \in items : \A j \in items : i <= j

\* C29: a work queue is a bounded LIFO: it never holds more than max_length items, pop
\* returns the item pushed most recently of those in the queue and removes it, and a
\* push onto a full queue discards the oldest item and keeps the new one.
C29_BoundedLifo ==
    [][/\ Len(lifo'.queue) <= lifo'.max_length
       /\ last'.op = "push" =>
            /\ last'.item \in LifoItems(lifo')
            /\ LifoItems(lifo') =
                    IF last'.pushed = last.pushed THEN LifoItems(lifo)
                    ELSE IF Len(lifo.queue) = lifo.max_length
                    THEN (LifoItems(lifo) \ {Oldest(LifoItems(lifo))}) \cup {last'.item}
                    ELSE LifoItems(lifo) \cup {last'.item}
       /\ (last'.op = "pop" /\ lifo.queue # <<>>) =>
            /\ last'.item = MostRecent(LifoItems(lifo))
            /\ LifoItems(lifo') = LifoItems(lifo) \ {last'.item}
       /\ (last'.op = "pop" /\ lifo.queue = <<>>) =>
            /\ last'.item = NONE
            /\ lifo' = lifo
      ]_vars

\* a push onto a full queue of more than one item has discarded the first item pushed
C29_Witness ==
    /\ last.op = "push"
    /\ lifo.max_length > 1
    /\ Len(lifo.queue) = lifo.max_length
    /\ last.pushed > lifo.max_length
    /\ Oldest(LifoItems(lifo)) > 1

\* ------------------------------------------------------------------ GossipProcessor
\* A piece of Work is [kind, should_import]: an unaggregated attestation with its
\* should_import, or an aggregate.  An Event is [type, message_id, work].
GossipWorks ==
    {[kind |-> "attestation", should_import |-> TRUE],
     [kind |-> "attestation", should_import |-> FALSE],
     [kind |-> "aggregate", should_import |-> TRUE]}

WorkEvent(message_id, work) == [type |-> "Work", message_id |-> message_id, work |-> work]

WorkerIdle == [type |-> "WorkerIdle", message_id |-> 0, work |-> NoWork]

QueueItem(message_id, item) == [message_id |-> message_id, item |-> item]

CanSpawnAlways(p) == TRUE

\* can_spawn, line 208
CanSpawn(p) == p.current_workers < p.max_workers

\* spawn_worker, lines 301-318: st is [processor, workers]; the worker task starts with
\* the verification of its work
SpawnWorker(st, message_id, work) ==
    [processor |-> [st.processor EXCEPT !.current_workers = @ + 1],
     workers |-> (message_id :> [pc |-> "verify", work |-> work]) @@ st.workers]

SpawnQueuedAttestation(st) ==
    IF LifoLen(st.processor.attestation_queue) > 0
    THEN SpawnWorker([st EXCEPT !.processor.attestation_queue = LifoPop(@).q],
                     LifoPop(st.processor.attestation_queue).item.message_id,
                     LifoPop(st.processor.attestation_queue).item.item)
    ELSE st

\* a manager that leaves the queues alone when a worker has ended
SpawnNoneQueued(st) == st

QueuedAttestationsFirst(st) ==
    IF LifoLen(st.processor.attestation_queue) > 0
    THEN SpawnQueuedAttestation(st)
    ELSE IF LifoLen(st.processor.aggregate_queue) > 0
    THEN SpawnWorker([st EXCEPT !.processor.aggregate_queue = LifoPop(@).q],
                     LifoPop(st.processor.aggregate_queue).item.message_id,
                     LifoPop(st.processor.aggregate_queue).item.item)
    ELSE st

\* lines 213-231: the aggregates, then the unaggregated attestations
SpawnQueued(st) ==
    IF LifoLen(st.processor.aggregate_queue) > 0
    THEN SpawnWorker([st EXCEPT !.processor.aggregate_queue = LifoPop(@).q],
                     LifoPop(st.processor.aggregate_queue).item.message_id,
                     LifoPop(st.processor.aggregate_queue).item.item)
    ELSE SpawnQueuedAttestation(st)

\* lines 233-254: the work is given to a new worker, or pushed to the queue of its kind
HandleWork(st, event) ==
    IF CanSpawn(st.processor)
    THEN SpawnWorker(st, event.message_id, event.work)
    ELSE IF event.work.kind = "attestation"
    THEN [st EXCEPT !.processor.attestation_queue =
                LifoPush(@, QueueItem(event.message_id, event.work))]
    ELSE [st EXCEPT !.processor.aggregate_queue =
                LifoPush(@, QueueItem(event.message_id, event.work))]

\* the body of the loop of the manager, lines 199-255
HandleEvent(st, event) ==
    IF event.type = "WorkerIdle"
    THEN SpawnQueued([st EXCEPT !.processor.current_workers = SaturatingSub(@, 1)])
    ELSE HandleWork(st, event)

\* mpsc::Sender::try_send: the event is added unless the channel holds
\* MAX_WORK_QUEUE_LEN events
TrySend(channel, event) ==
    IF Len(channel) < MAX_WORK_QUEUE_LEN THEN Append(channel, event) ELSE channel

\* the record of a message: its work, and what its worker has done so far
Emit(done, message_id, work, what) ==
    IF message_id \in DOMAIN done
    THEN [done EXCEPT ![message_id].log = Append(@, what)]
    ELSE (message_id :> [work |-> work, log |-> <<what>>]) @@ done

AfterPropagateAlwaysImports(work) == "fork_choice"

\* lines 362-364: an unaggregated attestation is applied to fork choice only with
\* should_import
AfterPropagate(work) ==
    IF work.kind = "attestation" /\ ~work.should_import THEN "idle" ELSE "fork_choice"

\* ------------------------------------------------ the manager and the workers at work
MaxBacklogHandled == 2

\* the messages whose events the manager receives
FollowedMessages == 1..(MaxMessages + MaxBacklogHandled)

GP_unchanged ==
    UNCHANGED <<proto_array, fc_vars, sp_vars, pool, lifo, av_vars>>

\* the router sends a message received from gossip to the manager
GP_send ==
    \E work \in GossipWorks :
        /\ last.sent < MaxMessages
        /\ Len(event_rx) < MAX_WORK_QUEUE_LEN
        /\ event_rx' = TrySend(event_rx, WorkEvent(last.sent + 1, work))
        /\ last' = [op |-> "send", sent |-> last.sent + 1]
        /\ UNCHANGED <<processor, workers, emitted>>
        /\ GP_unchanged

\* the manager receives an event and handles it; of the events that were in the channel
\* at the start only the first MaxBacklogHandled are followed
GP_manager ==
    /\ event_rx # <<>>
    /\ Head(event_rx).message_id \in FollowedMessages \cup {WorkerIdle.message_id}
    /\ processor' =
        HandleEvent([processor |-> processor, workers |-> workers], Head(event_rx)).processor
    /\ workers' =
        HandleEvent([processor |-> processor, workers |-> workers], Head(event_rx)).workers
    /\ event_rx' = Tail(event_rx)
    /\ UNCHANGED <<emitted, last>>
    /\ GP_unchanged

WorkerMoves(m, pc) == workers' = [workers EXCEPT ![m].pc = pc]

\* lines 341-356 and 391-405: the gossip verification returns Ok or an error
GP_verify(m) ==
    /\ m \in DOMAIN workers
    /\ workers[m].pc = "verify"
    /\ \E ok \in BOOLEAN :
        /\ emitted' = Emit(emitted, m, workers[m].work, IF ok THEN "Ok" ELSE "Err")
        /\ WorkerMoves(m, IF ok THEN "propagate" ELSE "idle")
    /\ UNCHANGED <<processor, event_rx, last>>
    /\ GP_unchanged

\* propagate_gossip_message, lines 360 and 409
GP_propagate(m) ==
    /\ m \in DOMAIN workers
    /\ workers[m].pc = "propagate"
    /\ emitted' = Emit(emitted, m, workers[m].work, "Validate")
    /\ WorkerMoves(m, AfterPropagate(workers[m].work))
    /\ UNCHANGED <<processor, event_rx, last>>
    /\ GP_unchanged

\* apply_attestation_to_fork_choice, lines 370-387 and 415-442: its error is logged
GP_fork_choice(m) ==
    /\ m \in DOMAIN workers
    /\ workers[m].pc = "fork_choice"
    /\ emitted' = Emit(emitted, m, workers[m].work, "fork_choice")
    /\ WorkerMoves(m, "idle")
    /\ UNCHANGED <<processor, event_rx, last>>
    /\ GP_unchanged

\* lines 446-455: the handler has returned, and the worker ends with try_send(WorkerIdle)
GP_idle(m) ==
    /\ m \in DOMAIN workers
    /\ workers[m].pc = "idle"
    /\ event_rx' = TrySend(event_rx, WorkerIdle)
    /\ workers' = [n \in DOMAIN workers \ {m} |-> workers[n]]
    /\ emitted' = Emit(emitted, m, workers[m].work, "end")
    /\ UNCHANGED <<processor, last>>
    /\ GP_unchanged

GossipNext ==
    \/ GP_send
    \/ GP_manager
    \/ \E m \in FollowedMessages :
        \/ GP_verify(m)
        \/ GP_propagate(m)
        \/ GP_fork_choice(m)
        \/ GP_idle(m)

GossipStart ==
    /\ proto_array = EmptyProtoArray
    /\ fc_store = <<>>
    /\ votes = <<>>
    /\ target_roots = <<>>
    /\ queued_attestations = <<>>
    /\ slots_per_epoch = SlotsPerEpoch
    /\ SlashingInit
    /\ pool = DefaultPool
    /\ lifo = LifoQueueNew(MAX_AGGREGATED_ATTESTATION_QUEUE_LEN)
    /\ chain = ChainAt(0, 0)
    /\ verifiers = [v \in Verifiers |-> IdleVerifier]
    /\ processor \in {ProcessorNew(max_workers) : max_workers \in 1..MaxWorkers}
    /\ event_rx = <<>>
    /\ workers = <<>>
    /\ emitted = <<>>
    /\ last = [op |-> "new", sent |-> 0]

SpecGossip == GossipStart /\ [][GossipNext]_vars

\* the channel after the router has sent MAX_WORK_QUEUE_LEN - 1 aggregates that the
\* manager has not received yet
Backlog ==
    [i \in 1..(MAX_WORK_QUEUE_LEN - 1) |->
        WorkEvent(MaxMessages + i, [kind |-> "aggregate", should_import |-> TRUE])]

BacklogWorkers == 1

BacklogStart ==
    /\ proto_array = EmptyProtoArray
    /\ fc_store = <<>>
    /\ votes = <<>>
    /\ target_roots = <<>>
    /\ queued_attestations = <<>>
    /\ slots_per_epoch = SlotsPerEpoch
    /\ SlashingInit
    /\ pool = DefaultPool
    /\ lifo = LifoQueueNew(MAX_AGGREGATED_ATTESTATION_QUEUE_LEN)
    /\ chain = ChainAt(0, 0)
    /\ verifiers = [v \in Verifiers |-> IdleVerifier]
    /\ processor = ProcessorNew(BacklogWorkers)
    /\ event_rx = Backlog
    /\ workers = <<>>
    /\ emitted = <<>>
    /\ last = [op |-> "new", sent |-> 0]

SpecGossipBacklog == BacklogStart /\ [][GossipNext]_vars

\* ------------------------------------------------- claims about the GossipProcessor
LogOf(m) == emitted[m].log

Logged(m, what) == \E i \in 1..Len(LogOf(m)) : LogOf(m)[i] = what

\* C25: a worker emits the propagation message (Validate) and applies the attestation
\* to fork choice only after the gossip verification has returned Ok, and in that
\* order; after a verification error it does neither; an unaggregated attestation with
\* should_import = false is propagated and never applied to fork choice.
C25_PropagateThenForkChoiceAfterOk ==
    \A m \in DOMAIN emitted :
        /\ LogOf(m)[1] \in {"Ok", "Err"}
        /\ LogOf(m)[1] = "Err" => ~Logged(m, "Validate") /\ ~Logged(m, "fork_choice")
        /\ \A i \in 1..Len(LogOf(m)) :
            /\ LogOf(m)[i] = "Validate" => i = 2
            /\ LogOf(m)[i] = "fork_choice" => (i = 3 /\ LogOf(m)[2] = "Validate")
        /\ (emitted[m].work.kind = "attestation" /\ ~emitted[m].work.should_import)
                => ~Logged(m, "fork_choice")
        /\ (Logged(m, "end") /\ LogOf(m)[1] = "Ok") =>
                LogOf(m) = IF /\ emitted[m].work.kind = "attestation"
                              /\ ~emitted[m].work.should_import
                           THEN <<"Ok", "Validate", "end">>
                           ELSE <<"Ok", "Validate", "fork_choice", "end">>

\* a worker has propagated an attestation that is not to be imported and has ended, and
\* another has propagated its attestation and applied it to fork choice
C25_Witness ==
    /\ \E m \in DOMAIN emitted :
            /\ emitted[m].work = [kind |-> "attestation", should_import |-> FALSE]
            /\ LogOf(m) = <<"Ok", "Validate", "end">>
    /\ \E m \in DOMAIN emitted :
            /\ emitted[m].work = [kind |-> "attestation", should_import |-> TRUE]
            /\ LogOf(m) = <<"Ok", "Validate", "fork_choice", "end">>
    /\ \E m \in DOMAIN emitted : LogOf(m) = <<"Err", "end">>

\* the WorkerIdle events that the manager has not received yet
IdleEvents == {i \in DOMAIN event_rx : event_rx[i].type = "WorkerIdle"}

\* C26: every worker that has been spawned signals WorkerIdle to the manager once when
\* its work ends, also when the event channel is at its capacity, so that no worker slot
\* is lost: every slot counted in current_workers is that of a worker still at work or
\* of a WorkerIdle event on its way to the manager, which will free it.
C26_NoWorkerSlotIsLost ==
    processor.current_workers = Cardinality(DOMAIN workers) + Cardinality(IdleEvents)

\* the manager has taken the event at the head of the channel
ManagerTakes(type) ==
    /\ event_rx # <<>>
    /\ event_rx' = Tail(event_rx)
    /\ Head(event_rx).type = type

Spawned == DOMAIN workers' \ DOMAIN workers

\* C27: after the manager has handled an event, current_workers <= max_workers: a Work
\* event spawns a worker only when current_workers < max_workers and is put into the
\* queue of its kind otherwise, and a WorkerIdle event frees one slot and spawns at most
\* one worker.
C27_WorkersWithinMaxWorkers ==
    [][/\ processor'.current_workers <= processor'.max_workers
       /\ ManagerTakes("Work") =>
            IF processor.current_workers < processor.max_workers
            THEN /\ Spawned = {Head(event_rx).message_id}
                 /\ processor' = [processor EXCEPT !.current_workers = @ + 1]
            ELSE /\ workers' = workers
                 /\ processor'.current_workers = processor.current_workers
                 /\ LifoLen(processor'.aggregate_queue) + LifoLen(processor'.attestation_queue)
                        = LifoLen(processor.aggregate_queue)
                            + LifoLen(processor.attestation_queue) + 1
       /\ ManagerTakes("WorkerIdle") =>
            /\ Cardinality(Spawned) <= 1
            /\ processor'.current_workers
                    = processor.current_workers - 1 + Cardinality(Spawned)
      ]_vars

\* every worker slot is taken, the workers are at work, and a Work event received
\* meanwhile waits in its queue
C27_Witness ==
    /\ processor.max_workers > 1
    /\ processor.current_workers = processor.max_workers
    /\ Cardinality(DOMAIN workers) = processor.max_workers
    /\ LifoLen(processor.aggregate_queue) + LifoLen(processor.attestation_queue) > 0

\* C28: on WorkerIdle the manager spawns at most one worker, for the aggregate at the
\* front of the aggregate queue if there is one, and for a queued unaggregated
\* attestation only when the aggregate queue is empty.
C28_AggregatesBeforeAttestations ==
    [][ManagerTakes("WorkerIdle") =>
        IF LifoLen(processor.aggregate_queue) > 0
        THEN /\ Spawned = {Head(processor.aggregate_queue.queue).message_id}
             /\ \A m \in Spawned : workers'[m].work.kind = "aggregate"
             /\ processor'.aggregate_queue.queue = Tail(processor.aggregate_queue.queue)
             /\ processor'.attestation_queue = processor.attestation_queue
        ELSE IF LifoLen(processor.attestation_queue) > 0
        THEN /\ Spawned = {Head(processor.attestation_queue.queue).message_id}
             /\ \A m \in Spawned : workers'[m].work.kind = "attestation"
             /\ processor'.attestation_queue.queue = Tail(processor.attestation_queue.queue)
             /\ processor'.aggregate_queue = processor.aggregate_queue
        ELSE Spawned = {}
      ]_vars

\* a worker verifies an aggregate that was taken from the queue while an unaggregated
\* attestation received before it still waits
C28_Witness ==
    \E m \in DOMAIN workers :
        /\ workers[m].work.kind = "aggregate"
        /\ processor.current_workers = processor.max_workers
        /\ LifoLen(processor.attestation_queue) > 0
        /\ \E i \in 1..LifoLen(processor.attestation_queue) :
                processor.attestation_queue.queue[i].message_id < m

\* ------------------------------------ the ForkChoice with epochs of a single slot
\* Every slot starts an epoch, so that the store passes beyond the epoch after an
\* attestation's target within AttestMaxSlot slots.
ShortSlotsPerEpoch == 1
AttestMaxSlot == 2
AttestMaxNodes == 2

AInit == FromGenesis(ShortSlotsPerEpoch)

A_update_time == UpdateTimeStep(AttestMaxSlot)
A_on_block == OnBlockStep(AttestMaxSlot, AttestMaxNodes)
A_on_attestation == OnAttestationStep(AttestMaxSlot)
A_get_head == GetHeadStep(AttestMaxSlot)

ANext ==
    \/ A_update_time
    \/ A_on_block
    \/ A_on_attestation
    \/ A_get_head

SpecAttest == AInit /\ [][ANext]_vars

\* ------------------------------------------- claims about on_attestation and on_tick
KnownToForkChoice(root) == root \in DOMAIN proto_array.indices

\* what an attestation must satisfy at the current slot of the store to be applied or queued
ValidAtCurrentSlot(a) ==
    /\ a.attesting_indices # {}
    /\ a.target.epoch \in {EpochOf(fc_store.current_slot) - 1, EpochOf(fc_store.current_slot)}
    /\ a.target.epoch = EpochOf(a.slot)
    /\ KnownToForkChoice(a.target.root)
    /\ KnownToForkChoice(a.beacon_block_root)
    /\ Node(proto_array, proto_array.indices[a.beacon_block_root]).slot <= a.slot

\* the InvalidAttestation errors of the conditions that the attestation does not satisfy
InvalidAttestationErrors(a) ==
    {e \in {"EmptyAggregationBitfield", "FutureEpoch", "PastEpoch", "BadTargetEpoch",
            "UnknownTargetRoot", "UnknownHeadBlock", "AttestsToFutureBlock"} :
        \/ e = "EmptyAggregationBitfield" /\ a.attesting_indices = {}
        \/ e = "FutureEpoch" /\ a.target.epoch > EpochOf(fc_store.current_slot)
        \/ e = "PastEpoch" /\ a.target.epoch < EpochOf(fc_store.current_slot) - 1
        \/ e = "BadTargetEpoch" /\ a.target.epoch # EpochOf(a.slot)
        \/ e = "UnknownTargetRoot" /\ ~KnownToForkChoice(a.target.root)
        \/ e = "UnknownHeadBlock" /\ ~KnownToForkChoice(a.beacon_block_root)
        \/ /\ e = "AttestsToFutureBlock"
           /\ KnownToForkChoice(a.beacon_block_root)
           /\ Node(proto_array, proto_array.indices[a.beacon_block_root]).slot > a.slot}

\* the target root of the attestation is the target root of the attested block
TargetOfBlock(a) ==
    /\ KnownToForkChoice(a.beacon_block_root)
    /\ target_roots[a.beacon_block_root] = a.target.root

C32_SecondOnAttestationChangesNothing ==
    (last.op = "on_attestation" /\ last.ok /\ last.attestation # NoAttestation) =>
        OnAttestation(Fc, fc_store.current_slot, last.attestation).fc = Fc


\* ------------------------------------------------------------ on_tick on its own
\* on_tick given any slot up to TickMaxSlot as the time, with the store of a ForkChoice
\* from genesis.
TickMaxSlot == 12

T_on_tick ==
    \E time \in 0..TickMaxSlot :
        /\ fc_store' = OnTick(fc_store, time).store
        /\ last' = [op |-> "on_tick", ok |-> OnTick(fc_store, time).ok,
                    err |-> IF OnTick(fc_store, time).ok THEN "none"
                            ELSE "InconsistentOnTick",
                    drained |-> {},
                    previous_slot |-> fc_store.current_slot, time |-> time]
        /\ UNCHANGED <<proto_array, votes, target_roots, queued_attestations,
                       slots_per_epoch, sp_vars, pool, lifo, av_vars, gp_vars>>

TickNext == T_on_tick

SpecTick == FCInit /\ [][TickNext]_vars

R_maybe_prune ==
    \E finalized_epoch \in Epochs, finalized_root \in Roots :
        /\ proto_array' = MaybePrune(proto_array, finalized_epoch, finalized_root).pa
        /\ last' = [op |-> "maybe_prune",
                    ok |-> MaybePrune(proto_array, finalized_epoch, finalized_root).ok,
                    err |-> IF MaybePrune(proto_array, finalized_epoch, finalized_root).ok
                            THEN "none"
                            ELSE MaybePrune(proto_array, finalized_epoch, finalized_root).err,
                    finalized_epoch |-> finalized_epoch,
                    finalized_root |-> finalized_root]
        /\ UNCHANGED <<fc_vars, sp_vars, pool, lifo, av_vars, gp_vars>>

PruneNext ==
    \/ PA_on_new_block
    \/ R_maybe_prune

SpecPrune == PAInit /\ [][PruneNext]_vars

\* C34: maybe_prune called with a finalized_epoch lower than the finalized_epoch of the
\* array returns RevertedFinalizedEpoch and changes nothing (nodes, indices,
\* finalized_epoch), so that no maybe_prune lowers the array's finalized_epoch.
C34_PruneNeverRevertsFinalizedEpoch ==
    [][last'.op = "maybe_prune" =>
        /\ proto_array'.finalized_epoch >= proto_array.finalized_epoch
        /\ last'.finalized_epoch < proto_array.finalized_epoch =>
            /\ ~last'.ok
            /\ last'.err = "RevertedFinalizedEpoch"
            /\ proto_array' = proto_array
      ]_vars

\* a maybe_prune with an epoch behind the array's has been refused, the array holding a
\* block and its child
C34_Witness ==
    /\ last.op = "maybe_prune"
    /\ last.err = "RevertedFinalizedEpoch"
    /\ last.finalized_epoch < proto_array.finalized_epoch
    /\ Len0(proto_array) >= 2

\* C35: after a maybe_prune has installed a finalized root, a maybe_prune with the same
\* finalized epoch and another finalized root returns an error: the array is never
\* pruned to another root at an unchanged finalized epoch.
C35_SameEpochOtherRootIsRefused ==
    [][(/\ last.op = "maybe_prune" /\ last.ok
        /\ last'.op = "maybe_prune"
        /\ last'.finalized_epoch = proto_array.finalized_epoch
        /\ last'.finalized_epoch = last.finalized_epoch
        /\ last'.finalized_root # last.finalized_root)
            => ~last'.ok /\ proto_array' = proto_array
      ]_vars


\* C37: after any sequence of on_new_block, apply_score_changes and maybe_prune calls the
\* map from roots to indices is a bijection onto the nodes: indices has as many entries
\* as nodes, and indices[nodes[i].root] = i for every index i, also after an on_new_block
\* with a root that is already present.
C37_IndicesAreBijection ==
    /\ Cardinality(DOMAIN proto_array.indices) = Len0(proto_array)
    /\ \A i \in 0..(Len0(proto_array) - 1) :
        /\ Node(proto_array, i).root \in DOMAIN proto_array.indices
        /\ proto_array.indices[Node(proto_array, i).root] = i


\* C38: in every state reached by on_tick, on_block, on_attestation and get_head from a
\* store with best_justified_checkpoint.epoch >= justified_checkpoint.epoch, the epoch of
\* best_justified_checkpoint is still at least the epoch of justified_checkpoint.
C38_BestJustifiedNotBehindJustified ==
    fc_store.best_justified_checkpoint.epoch >= fc_store.justified_checkpoint.epoch

\* an on_block has raised best_justified_checkpoint and left justified_checkpoint behind
C38_Witness ==
    /\ last.op = "on_block"
    /\ last.ok
    /\ fc_store.best_justified_checkpoint.epoch > fc_store.justified_checkpoint.epoch
    /\ fc_store.best_justified_checkpoint = last.justified


\* ------------------------------------ what a failed verification leaves behind
\* the verification of thread v has not returned an error
NotRefused(v) == verifiers[v].pc # "done" \/ verifiers[v].result = "Ok"

\* C39: a verification changes the dedup sets only when it returns Ok: every validator
\* in ObservedAttesters, every root in ObservedAggregates and every aggregator in
\* ObservedAggregators has been put there by a call that returns Ok (or has not returned
\* yet), and a call that has returned an error has left nothing in the observed sets.
C39_ObservedOnlyOnSuccess ==
    /\ \A seen \in chain.observed_attesters :
        \E v \in Verifiers :
            /\ verifiers[v].work.kind = "attestation"
            /\ verifiers[v].attesting_indices # {}
            /\ SeenAttester(verifiers[v]) = seen
            /\ NotRefused(v)
    /\ \A root \in chain.observed_attestations :
        \E v \in Verifiers :
            /\ verifiers[v].work.kind = "aggregate"
            /\ AttestationRoot(verifiers[v].work.attestation) = root
            /\ NotRefused(v)
    /\ \A seen \in chain.observed_aggregators :
        \E v \in Verifiers :
            /\ verifiers[v].work.kind = "aggregate"
            /\ SeenAggregator(verifiers[v]) = seen
            /\ NotRefused(v)


\* C40: after the manager has handled an event, work waits in a queue only while every
\* worker slot is taken: if the aggregate queue or the queue of unaggregated attestations
\* is not empty, current_workers = max_workers.
C40_QueuedOnlyWhileAllWorkersBusy ==
    (LifoLen(processor.aggregate_queue) > 0 \/ LifoLen(processor.attestation_queue) > 0)
        => processor.current_workers = processor.max_workers

\* a worker has ended, the manager has received its WorkerIdle and spawned a worker for
\* queued work, and more work still waits
C40_Witness ==
    /\ \E m \in DOMAIN emitted : Logged(m, "end")
    /\ IdleEvents = {}
    /\ LifoLen(processor.aggregate_queue) + LifoLen(processor.attestation_queue) > 0
    /\ processor.current_workers = processor.max_workers
    /\ Cardinality(DOMAIN workers) = processor.max_workers


\* ------------------------------------------- apply_score_changes at the width of i64
\* The weights (u64) and the deltas (i64) that are multiples of 2^62, counted in that
\* unit: 2^64 is WordUnits, an i64 is one of -2, -1, 0, 1 and a u64 one of 0, 1, 2, 3.
\* Sums and wraps of such values are such values, so the arithmetic below is that of the
\* source on these inputs.
WordUnits == 4
I64Values == (0 - WordUnits \div 2)..(WordUnits \div 2 - 1)
U64Values == 0..(WordUnits - 1)

\* a + b on i64 without overflow checks (two's complement)
WrappingAddI64(a, b) == ((a + b + WordUnits \div 2) % WordUnits) - WordUnits \div 2

\* i64::abs without overflow checks, then `as u64`
AbsAsU64(a) == IF a < 0 THEN 0 - a ELSE a

ScoreErr(pa, err) == [ok |-> FALSE, pa |-> pa, err |-> err]

\* lines 83-103: checked_sub / checked_add of the delta on the weight: [ok, val]
CheckedApplyDeltaU64(weight, node_delta) ==
    IF node_delta < 0
    THEN [ok |-> weight >= AbsAsU64(node_delta), val |-> weight - AbsAsU64(node_delta)]
    ELSE [ok |-> weight + node_delta \in U64Values, val |-> weight + node_delta]

\* line 113: *parent_delta += node_delta, in a build without overflow checks
AddToParentDelta(a, b) == WrappingAddI64(a, b)

\* The loop of apply_score_changes from node_index down to 0.  overflow_checks is whether
\* the build panics on an arithmetic overflow (debug) or wraps (release).
RECURSIVE ApplyScoreLoopI64(_, _, _, _)
ApplyScoreLoopI64(pa, deltas, node_index, overflow_checks) ==
    IF node_index < 0 THEN [ok |-> TRUE, pa |-> pa, err |-> "none"]
    ELSE IF Node(pa, node_index).root = ZeroHash
    THEN ApplyScoreLoopI64(pa, deltas, node_index - 1, overflow_checks)
    ELSE IF node_index >= Len(deltas) THEN ScoreErr(pa, "InvalidNodeDelta")
    ELSE IF overflow_checks /\ deltas[node_index + 1] = 0 - WordUnits \div 2
    THEN ScoreErr(pa, "panic")                                   \* i64::MIN.abs()
    ELSE IF ~CheckedApplyDeltaU64(Node(pa, node_index).weight, deltas[node_index + 1]).ok
    THEN ScoreErr(pa, "DeltaOverflow")
    ELSE IF Node(pa, node_index).parent = NONE
    THEN ApplyScoreLoopI64(
            SetNode(pa, node_index,
                [Node(pa, node_index) EXCEPT !.weight =
                    CheckedApplyDeltaU64(@, deltas[node_index + 1]).val]),
            deltas, node_index - 1, overflow_checks)
    ELSE IF Node(pa, node_index).parent >= Len(deltas)
    THEN ScoreErr(SetNode(pa, node_index,
                    [Node(pa, node_index) EXCEPT !.weight =
                        CheckedApplyDeltaU64(@, deltas[node_index + 1]).val]),
                  "InvalidParentDelta")
    ELSE IF /\ overflow_checks
            /\ deltas[Node(pa, node_index).parent + 1] + deltas[node_index + 1]
                    \notin I64Values
    THEN ScoreErr(SetNode(pa, node_index,
                    [Node(pa, node_index) EXCEPT !.weight =
                        CheckedApplyDeltaU64(@, deltas[node_index + 1]).val]),
                  "panic")                                   \* attempt to add with overflow
    ELSE IF ~MaybeUpdateBestChildAndDescendant(
                SetNode(pa, node_index,
                    [Node(pa, node_index) EXCEPT !.weight =
                        CheckedApplyDeltaU64(@, deltas[node_index + 1]).val]),
                Node(pa, node_index).parent, node_index).ok
    THEN ScoreErr(SetNode(pa, node_index,
                    [Node(pa, node_index) EXCEPT !.weight =
                        CheckedApplyDeltaU64(@, deltas[node_index + 1]).val]),
                  "InvalidBestDescendant")
    ELSE ApplyScoreLoopI64(
            MaybeUpdateBestChildAndDescendant(
                SetNode(pa, node_index,
                    [Node(pa, node_index) EXCEPT !.weight =
                        CheckedApplyDeltaU64(@, deltas[node_index + 1]).val]),
                Node(pa, node_index).parent, node_index).pa,
            [deltas EXCEPT ![Node(pa, node_index).parent + 1] =
                AddToParentDelta(@, deltas[node_index + 1])],
            node_index - 1, overflow_checks)

ApplyScoreChangesI64(pa, deltas, justified_epoch, finalized_epoch, overflow_checks) ==
    IF Len(deltas) # Cardinality(DOMAIN pa.indices) THEN ScoreErr(pa, "InvalidDeltaLen")
    ELSE ApplyScoreLoopI64([pa EXCEPT !.justified_epoch = justified_epoch,
                                      !.finalized_epoch = finalized_epoch],
                           deltas, Len0(pa) - 1, overflow_checks)

\* Blocks of new roots, all of epoch 0, and score changes with every delta of I64Values.
ScoreMaxNodes == 2

W_on_new_block ==
    \E root \in Roots, parent_opt \in Roots \cup {NONE} :
        /\ Len0(proto_array) < ScoreMaxNodes
        /\ root \notin DOMAIN proto_array.indices
        /\ (root = ZeroHash => parent_opt = NONE)
        /\ IF Len0(proto_array) = 0 THEN parent_opt = NONE
           ELSE parent_opt \in DOMAIN proto_array.indices
        /\ proto_array' = OnNewBlock(proto_array, 0, root, parent_opt, 0, 0).pa
        /\ last' = [op |-> "on_new_block",
                    ok |-> OnNewBlock(proto_array, 0, root, parent_opt, 0, 0).ok]
        /\ UNCHANGED <<fc_vars, sp_vars, pool, lifo, av_vars, gp_vars>>

W_apply_score_changes ==
    \E deltas \in [1..Cardinality(DOMAIN proto_array.indices) -> I64Values],
       overflow_checks \in BOOLEAN :
        /\ proto_array' = ApplyScoreChangesI64(proto_array, deltas, 0, 0, overflow_checks).pa
        /\ last' = [op |-> "apply_score_changes",
                    ok |-> ApplyScoreChangesI64(proto_array, deltas, 0, 0,
                                                overflow_checks).ok,
                    err |-> ApplyScoreChangesI64(proto_array, deltas, 0, 0,
                                                 overflow_checks).err,
                    deltas |-> deltas,
                    before |-> [i \in 1..Len(proto_array.nodes) |->
                                    proto_array.nodes[i].weight]]
        /\ UNCHANGED <<fc_vars, sp_vars, pool, lifo, av_vars, gp_vars>>

ScoreNext ==
    \/ W_on_new_block
    \/ W_apply_score_changes

SpecScores == PAInit /\ [][ScoreNext]_vars

\* the sum of the deltas given for the nodes of `among` that are node i or under it
RECURSIVE SubtreeDelta(_, _, _, _)
SubtreeDelta(pa, deltas, i, among) ==
    IF among = {} THEN 0
    ELSE (IF IsDescendantOrSelf(pa, CHOOSE j \in among : TRUE, i)
          THEN deltas[(CHOOSE j \in among : TRUE) + 1] ELSE 0)
         + SubtreeDelta(pa, deltas, i, among \ {CHOOSE j \in among : TRUE})

\* the weight that the claim gives node i after the call
ExpectedWeight(i) ==
    last.before[i + 1]
        + SubtreeDelta(proto_array, last.deltas, i, 0..(Len0(proto_array) - 1))

\* C36: after a successful apply_score_changes(deltas, ...) the weight of every node
\* whose root is not the zero hash has changed by the sum of the deltas given for the
\* node and for all its descendants; and a call in which that sum would make a weight
\* negative or greater than a u64 returns DeltaOverflow.
C36_WeightsChangeBySubtreeDeltas ==
    last.op = "apply_score_changes" =>
        /\ last.ok =>
            \A i \in 0..(Len0(proto_array) - 1) :
                Node(proto_array, i).root # ZeroHash
                    => Node(proto_array, i).weight = ExpectedWeight(i)
        /\ (\E i \in 0..(Len0(proto_array) - 1) :
                /\ Node(proto_array, i).root # ZeroHash
                /\ ExpectedWeight(i) \notin U64Values)
            => ~last.ok /\ last.err = "DeltaOverflow"

====
